---- MODULE Spec2Model ----
(***************************************************************************)
(* Model of the spreadsheet ingestion core of app/main.py: upload_excel,   *)
(* clear_records and the helpers they call, over a transactional store     *)
(* (SQLAlchemy session with autoflush=False, autocommit=False).            *)
(*                                                                         *)
(* Text values are sequences of character codes, so that lower(), strip(), *)
(* concatenation, strftime and sorted() are computed, not assumed.         *)
(* Amounts are integers in thousandths of the currency unit.               *)
(***************************************************************************)
EXTENDS Integers, Sequences, FiniteSets, TLC

VARIABLES records, batches, blobs, calls, last, tx, users, cookies, login_attempts

vars == <<records, batches, blobs, calls, last, tx, users, cookies, login_attempts>>

(***************************************************************************)
(* Text helpers (Python str methods used by the code).                     *)
(***************************************************************************)
Whitespace == {9, 10, 11, 12, 13, 32}

\* str.lower() on ASCII text
lower(s) == [i \in DOMAIN s |-> IF s[i] \in 65..90 THEN s[i] + 32 ELSE s[i]]

RECURSIVE lstrip(_)
lstrip(s) == IF s # <<>> /\ Head(s) \in Whitespace THEN lstrip(Tail(s)) ELSE s

RECURSIVE rstrip(_)
rstrip(s) ==
    IF s # <<>> /\ s[Len(s)] \in Whitespace THEN rstrip(SubSeq(s, 1, Len(s) - 1)) ELSE s

\* str.strip()
strip(s) == rstrip(lstrip(s))

\* s < t in Python's string order (lexicographic on code points)
RECURSIVE StrLess(_, _)
StrLess(s, t) ==
    IF t = <<>> THEN FALSE
    ELSE IF s = <<>> THEN TRUE
    ELSE IF Head(s) # Head(t) THEN Head(s) < Head(t)
    ELSE StrLess(Tail(s), Tail(t))

Digit(n) == 48 + n
Digits2(n) == <<Digit((n \div 10) % 10), Digit(n % 10)>>
Digits4(n) == <<Digit((n \div 1000) % 10), Digit((n \div 100) % 10)>> \o Digits2(n % 100)

\* text literals of the code
General == <<71, 101, 110, 101, 114, 97, 108>>                      \* "General"
SinProyecto == <<83, 105, 110, 32, 112, 114, 111, 121, 101, 99, 116, 111>> \* "Sin proyecto"
Dash == <<32, 45, 32>>                                              \* " - "
Actualizado == <<32, 40, 97, 99, 116, 117, 97, 108, 105, 122, 97, 100, 111, 41>> \* " (actualizado)"
NanText == <<110, 97, 110>>                                         \* "nan"
Ingreso == <<105, 110, 103, 114, 101, 115, 111>>                    \* "ingreso"
Egreso == <<101, 103, 114, 101, 115, 111>>                          \* "egreso"
Entrada == <<101, 110, 116, 114, 97, 100, 97>>                      \* "entrada"
Salida == <<115, 97, 108, 105, 100, 97>>                            \* "salida"

(***************************************************************************)
(* Dates (datetime.date) as records [y, m, d].                             *)
(***************************************************************************)
MkDate(y, m, d) == [y |-> y, m |-> m, d |-> d]

DateLess(a, b) ==
    \/ a.y < b.y
    \/ a.y = b.y /\ a.m < b.m
    \/ a.y = b.y /\ a.m = b.m /\ a.d < b.d

\* date.isoformat(): "YYYY-MM-DD"
isoformat(dt) == Digits4(dt.y) \o <<45>> \o Digits2(dt.m) \o <<45>> \o Digits2(dt.d)

\* date.strftime("%Y-%m")
strftime_Ym(dt) == Digits4(dt.y) \o <<45>> \o Digits2(dt.m)

\* parsed_date.replace(day=1)
month_start(dt) == MkDate(dt.y, dt.m, 1)

\* first day of the following month
next_month_start(dt) == IF dt.m = 12 THEN MkDate(dt.y + 1, 1, 1) ELSE MkDate(dt.y, dt.m + 1, 1)

(***************************************************************************)
(* Cells of a sheet: NaN (empty), a number, a native date or a text.       *)
(***************************************************************************)
NaN == [kind |-> "nan"]
Num(v) == [kind |-> "num", v |-> v]
DateCell(dt) == [kind |-> "date", dt |-> dt]
Text(s) == [kind |-> "text", s |-> s]

\* the failure value of a parser (the exception the caller catches)
Fail == [kind |-> "fail"]

\* str(value) of a cell, for the cells whose text the code reads (text and NaN)
str(cell) == CASE cell.kind = "text" -> cell.s [] cell.kind = "nan" -> NanText

normalize_text_value(value, fallback) ==
    IF value.kind = "nan" THEN fallback
    ELSE LET text == strip(str(value))
         IN IF text = <<>> \/ lower(text) = NanText THEN fallback ELSE text

\* str.replace(old, new) for a one-character old
RECURSIVE replace(_, _, _)
replace(s, old, new) ==
    IF s = <<>> THEN <<>>
    ELSE (IF Head(s) = old THEN new ELSE <<Head(s)>>) \o replace(Tail(s), old, new)

\* the characters of s that are in chars: re.sub of the complement class with ""
RECURSIVE keep(_, _)
keep(s, chars) ==
    IF s = <<>> THEN <<>>
    ELSE (IF Head(s) \in chars THEN <<Head(s)>> ELSE <<>>) \o keep(Tail(s), chars)

\* str.rfind(c) + 1: the position of the last c in s, 0 when there is none
RECURSIVE rfind(_, _)
rfind(s, c) == IF s = <<>> \/ s[Len(s)] = c THEN Len(s) ELSE rfind(SubSeq(s, 1, Len(s) - 1), c)

Comma == 44
Minus == 45
Dot == 46
Slash == 47
DigitChars == 48 .. 57

\* the class [0-9,.-]
AmountChars == DigitChars \cup {Comma, Dot, Minus}

\* \d+ with between lo and hi digits
digits(s, lo, hi) == Len(s) \in lo .. hi /\ \A i \in DOMAIN s : s[i] \in DigitChars

\* the number written by a text of digits
RECURSIVE int_of(_)
int_of(s) == IF s = <<>> THEN 0 ELSE 10 * int_of(SubSeq(s, 1, Len(s) - 1)) + (s[Len(s)] - 48)

\* float() of the digits whole "." frac, in thousandths (up to three decimals), with
\* its sign; ValueError when a part holds another character or both are empty
float_parts(negative, whole, frac) ==
    IF whole \o frac = <<>> \/ ~digits(whole \o frac, 1, Len(whole) + Len(frac)) THEN Fail
    ELSE Num((IF negative THEN 0 - 1 ELSE 1)
                * (1000 * int_of(whole) + int_of(SubSeq(frac \o <<48, 48, 48>>, 1, 3))))

\* float() of an unsigned text whose last "." is at position point (0: none)
float_at(negative, body, point) ==
    float_parts(negative,
                SubSeq(body, 1, IF point = 0 THEN Len(body) ELSE point - 1),
                SubSeq(body, IF point = 0 THEN Len(body) + 1 ELSE point + 1, Len(body)))

float_unsigned(negative, body) == float_at(negative, body, rfind(body, Dot))

\* float(text) for a text over [0-9.-]: an optional "-", digits with at most one "."
float_of(text) ==
    float_unsigned(text # <<>> /\ Head(text) = Minus,
                   SubSeq(text, IF text # <<>> /\ Head(text) = Minus THEN 2 ELSE 1, Len(text)))

\* Mutant: with both separators, the one occurring first is taken as the decimal one
comma_is_decimal_when_first(comma, dot) == comma < dot

\* text.rfind(",") > text.rfind(".")
comma_is_decimal(comma, dot) == comma > dot

\* the separators of an amount text brought to the form float() reads; comma and dot
\* are the positions of the last "," and "." (0: none)
decimal_form(text, comma, dot) ==
    IF (comma > 0 /\ dot = 0) \/ (comma > 0 /\ dot > 0 /\ comma_is_decimal(comma, dot))
    THEN replace(replace(text, Dot, <<>>), Comma, <<Dot>>)
    ELSE IF comma > 0 THEN replace(text, Comma, <<>>)
    ELSE text

\* parse_amount on a text with the characters outside [0-9,.-] removed
amount_of_text(text) ==
    IF text = <<>> THEN Fail
    ELSE float_of(decimal_form(text, rfind(text, Comma), rfind(text, Dot)))

\* parse_amount (amounts in thousandths)
parse_amount(value) ==
    IF value.kind = "nan" THEN Fail
    ELSE IF value.kind = "num" THEN value
    ELSE IF value.kind # "text" THEN Fail
    ELSE amount_of_text(keep(replace(strip(str(value)), 32, <<>>), AmountChars))

\* the fields of s between the characters of seps
RECURSIVE split(_, _)
split(s, seps) ==
    IF \A i \in DOMAIN s : s[i] \notin seps THEN <<s>>
    ELSE LET i == CHOOSE k \in DOMAIN s : s[k] \in seps /\ \A j \in 1 .. k - 1 : s[j] \notin seps
         IN <<SubSeq(s, 1, i - 1)>> \o split(SubSeq(s, i + 1, Len(s)), seps)

\* the fields are three texts of digits with lengths in the given ranges
date_fields(f, first, second, third) ==
    /\ Len(f) = 3
    /\ digits(f[1], first[1], first[2])
    /\ digits(f[2], second[1], second[2])
    /\ digits(f[3], third[1], third[2])

\* re.match(r"^\d{4}[-/]\d{1,2}[-/]\d{1,2}$", text_value)
iso_like(text_value) == date_fields(split(text_value, {Minus, Slash}), <<4, 4>>, <<1, 2>>, <<1, 2>>)

days_in_month(y, m) ==
    IF m \in {4, 6, 9, 11} THEN 30
    ELSE IF m # 2 THEN 31
    ELSE IF y % 4 = 0 /\ (y % 100 # 0 \/ y % 400 = 0) THEN 29 ELSE 28

\* the date of year, month and day numbers, or the ValueError of datetime
date_of(y, m, d) ==
    IF y >= 1 /\ m \in 1 .. 12 /\ d \in 1 .. days_in_month(y, m) THEN DateCell(MkDate(y, m, d)) ELSE Fail

\* the date of the fields year, month, day when they have the lengths fromisoformat reads
iso_date(f) ==
    IF date_fields(f, <<4, 4>>, <<2, 2>>, <<2, 2>>)
    THEN date_of(int_of(f[1]), int_of(f[2]), int_of(f[3]))
    ELSE Fail

\* datetime.fromisoformat(text).date() on a text of digits and two "-":
\* only YYYY-MM-DD, month and day of two digits, is read
fromisoformat(text) == iso_date(split(text, {Minus}))

\* the date of two numbers a, b and a year: a is the day when dayfirst is preferred
\* and b can be a month, or when a cannot be a month
day_month_year(a, b, y, dayfirst) ==
    IF (dayfirst /\ (b <= 12 \/ a > 12)) \/ (~dayfirst /\ a > 12 /\ b <= 12)
    THEN date_of(y, b, a)
    ELSE date_of(y, a, b)

\* the date of the fields of a text that is not iso-like
fields_date(f, dayfirst) ==
    IF date_fields(f, <<1, 2>>, <<1, 2>>, <<4, 4>>)
    THEN day_month_year(int_of(f[1]), int_of(f[2]), int_of(f[3]), dayfirst)
    ELSE Fail

\* pd.to_datetime(text, dayfirst=...).date() on the texts of the model that are
\* not iso-like: two numbers and a year of four digits, separated by "-" or "/",
\* read in the preferred order when that gives a month, in the other order when
\* only that gives one; the other texts of the model (no digits) hold no date
to_datetime(text, dayfirst) == fields_date(split(text, {Minus, Slash}), dayfirst)

\* lines 298-301: the day-first reading, and the month-first one when it is NaT
coerced_or_raise(parsed, value) == IF parsed # Fail THEN parsed ELSE to_datetime(value, FALSE)

\* parse_excel_date on the stripped text of a cell
date_of_text(text_value) ==
    IF text_value = <<>> THEN Fail
    ELSE IF iso_like(text_value) THEN fromisoformat(replace(text_value, Slash, <<Minus>>))
    ELSE coerced_or_raise(to_datetime(text_value, TRUE), text_value)

parse_excel_date(value) ==
    IF value.kind = "nan" THEN Fail
    ELSE IF value.kind = "date" THEN value
    ELSE IF value.kind # "text" THEN Fail
    ELSE date_of_text(strip(str(value)))

\* round(amount, 2): thousandths to the nearest cent, ties to even
round2(v) ==
    LET q == v \div 10
        r == v % 10
    IN IF r < 5 THEN q
       ELSE IF r > 5 THEN q + 1
       ELSE IF q % 2 = 0 THEN q ELSE q + 1

build_record_fingerprint(owner_id, parsed_date, account, category, subcategory, project, project_code, description, flow_type, amount, document_number) ==
    << owner_id, isoformat(parsed_date), lower(account), lower(category), lower(subcategory),
       lower(project), lower(project_code), lower(description), flow_type, round2(amount),
       lower(document_number) >>

(***************************************************************************)
(* Raw sheets (pd.read_excel with header=None): rows of cells, before the   *)
(* header row is known.                                                    *)
(***************************************************************************)
\* unicodedata.normalize("NFKD", c).encode("ascii", "ignore") of one character,
\* for ASCII and the accented Latin letters: the letter loses its accent
ascii_fold(c) ==
    IF c < 128 THEN <<c>>
    ELSE IF c \in 192..197 THEN <<65>> ELSE IF c \in 224..229 THEN <<97>>
    ELSE IF c \in 200..203 THEN <<69>> ELSE IF c \in 232..235 THEN <<101>>
    ELSE IF c \in 204..207 THEN <<73>> ELSE IF c \in 236..239 THEN <<105>>
    ELSE IF c \in 210..214 THEN <<79>> ELSE IF c \in 242..246 THEN <<111>>
    ELSE IF c \in 217..220 THEN <<85>> ELSE IF c \in 249..252 THEN <<117>>
    ELSE IF c = 209 THEN <<78>> ELSE IF c = 241 THEN <<110>>
    ELSE <<>>

RECURSIVE to_ascii(_)
to_ascii(s) == IF s = <<>> THEN <<>> ELSE ascii_fold(Head(s)) \o to_ascii(Tail(s))

\* the class [a-z0-9]
AlphaNum == (48..57) \cup (97..122)

\* re.sub(r"[^a-z0-9]+", "_", s): each run of other characters becomes one "_"
RECURSIVE sub_non_alnum(_)
sub_non_alnum(s) ==
    IF s = <<>> THEN <<>>
    ELSE IF Head(s) \in AlphaNum THEN <<Head(s)>> \o sub_non_alnum(Tail(s))
    ELSE IF Len(s) > 1 /\ s[2] \notin AlphaNum THEN sub_non_alnum(Tail(s))
    ELSE <<95>> \o sub_non_alnum(Tail(s))

\* str.strip(chars)
RECURSIVE strip_chars(_, _)
strip_chars(s, chars) ==
    IF s # <<>> /\ Head(s) \in chars THEN strip_chars(Tail(s), chars)
    ELSE IF s # <<>> /\ s[Len(s)] \in chars THEN strip_chars(SubSeq(s, 1, Len(s) - 1), chars)
    ELSE s

normalize_column_name(value) ==
    strip_chars(sub_non_alnum(lower(strip(to_ascii(value)))), {95})

\* column tokens the header detection looks for
TokFecha == <<102, 101, 99, 104, 97>> \* "fecha"
TokTipo == <<116, 105, 112, 111>> \* "tipo"
TokTipoDeMovimiento == <<116, 105, 112, 111, 95, 100, 101, 95, 109, 111, 118, 105, 109, 105, 101, 110, 116, 111>> \* "tipo_de_movimiento"
TokCategoria == <<99, 97, 116, 101, 103, 111, 114, 105, 97>> \* "categoria"
TokLineaDeNegocio == <<108, 105, 110, 101, 97, 95, 100, 101, 95, 110, 101, 103, 111, 99, 105, 111>> \* "linea_de_negocio"
TokCategoria_ == <<99, 97, 116, 101, 103, 111, 114, 105, 97, 95>> \* "categoria_"

\* the normalized tokens of the non-empty cells of one raw row
row_values(row) ==
    {normalize_column_name(str(row[i])) :
        i \in {j \in DOMAIN row : row[j].kind # "nan" /\ strip(str(row[j])) # <<>>}}

\* the rows header detection scans
HeaderScanRows == 40

\* Mutant: the scan goes through the whole sheet
max_rows_whole_sheet(raw_dataframe) == Len(raw_dataframe)

max_rows(raw_dataframe) ==
    IF Len(raw_dataframe) < HeaderScanRows THEN Len(raw_dataframe) ELSE HeaderScanRows

\* the result of detect_header_row: None, or the index of the header row
None == [found |-> FALSE]
row_found(row_index) == [found |-> TRUE, row_index |-> row_index]

\* the loop of detect_header_row from row_index on (row_index counts from 0)
RECURSIVE scan_rows(_, _, _)
scan_rows(raw_dataframe, row_index, limit) ==
    IF row_index >= limit THEN None
    ELSE LET values == row_values(raw_dataframe[row_index + 1])
         IN IF /\ TokFecha \in values
               /\ (TokTipo \in values \/ TokTipoDeMovimiento \in values)
               /\ \/ TokCategoria \in values
                  \/ TokLineaDeNegocio \in values
                  \/ TokCategoria_ \in values
            THEN row_found(row_index)
            ELSE scan_rows(raw_dataframe, row_index + 1, limit)

detect_header_row(raw_dataframe) == scan_rows(raw_dataframe, 0, max_rows(raw_dataframe))

(***************************************************************************)
(* Sheets.  A sheet is the result of extract_sheet_as_table: no table, or  *)
(* a dataframe whose columns are named by the canonical field they resolve *)
(* to (column_map) and whose rows map each column to a cell.               *)
(***************************************************************************)
NoTable == [table |-> FALSE, columns |-> {}, rows |-> <<>>]
Frame(cols, rws) == [table |-> TRUE, columns |-> cols, rows |-> rws]

\* dataframe.empty
empty(sheet) == sheet.columns = {} \/ sheet.rows = <<>>

mandatory == {"fecha", "categoria", "tipo"}

has_amount(column_map) ==
    "monto" \in column_map \/ ("entrada_neta" \in column_map /\ "salida_neta" \in column_map)

\* the test under which a sheet is appended to prepared_frames
eligible(sheet) ==
    /\ sheet.table /\ ~empty(sheet)
    /\ mandatory \subseteq sheet.columns
    /\ has_amount(sheet.columns)

prepared_frames(workbook) == SelectSeq(workbook, eligible)

\* flow_aliases.get(str(cell).strip().lower()); "" stands for None
flow_aliases(flow_raw) ==
    IF flow_raw = Ingreso \/ flow_raw = Entrada THEN "ingreso"
    ELSE IF flow_raw = Egreso \/ flow_raw = Salida THEN "egreso"
    ELSE ""

row_flow(row) == flow_aliases(lower(strip(str(row["tipo"]))))

\* the amount cell the row's flow type selects
row_amount(row, column_map, flow_type) ==
    IF "monto" \in column_map THEN parse_amount(row["monto"])
    ELSE IF flow_type = "ingreso" THEN parse_amount(row["entrada_neta"])
    ELSE parse_amount(row["salida_neta"])

\* the month label of a row: the month column when present, else the date's YYYY-MM
row_month(row, column_map, parsed_date) ==
    IF "mes" \in column_map THEN normalize_text_value(row["mes"], strftime_Ym(parsed_date))
    ELSE strftime_Ym(parsed_date)

NoPeriod == [found |-> FALSE]

\* first pass of upload_excel over a sheet, from row i on
RECURSIVE detect_period(_, _)
detect_period(frame, i) ==
    IF i > Len(frame.rows) THEN NoPeriod
    ELSE LET row == frame.rows[i]
             flow_type == row_flow(row)
         IN IF flow_type \notin {"ingreso", "egreso"} THEN detect_period(frame, i + 1)
            ELSE IF row_amount(row, frame.columns, flow_type) = Fail
                 THEN detect_period(frame, i + 1)
            ELSE IF parse_excel_date(row["fecha"]) = Fail THEN detect_period(frame, i + 1)
            ELSE LET parsed_date == parse_excel_date(row["fecha"]).dt
                     detected_period == row_month(row, frame.columns, parsed_date)
                 IN IF detected_period # <<>>
                    THEN [found |-> TRUE,
                          detected_period |-> detected_period,
                          detected_month_start |-> month_start(parsed_date),
                          detected_next_month_start |-> next_month_start(parsed_date)]
                    ELSE detect_period(frame, i + 1)

\* an optional text column, with the default the code gives it
text_column(row, column_map, name, fallback) ==
    IF name \in column_map THEN normalize_text_value(row[name], fallback) ELSE fallback

\* str(row[categoria]).strip()
row_category(row) == strip(str(row["categoria"]))

\* The second pass's parse of one row.  ok = FALSE: the row is skipped.
\* sampled: the row's month was appended to period_samples before it failed.
parse_row(row, column_map) ==
    LET flow_type == row_flow(row)
        skip == [ok |-> FALSE, sampled |-> FALSE]
    IN IF flow_type \notin {"ingreso", "egreso"} THEN skip
       ELSE IF row_amount(row, column_map, flow_type) = Fail THEN skip
       ELSE IF parse_excel_date(row["fecha"]) = Fail THEN skip
       ELSE LET amount == row_amount(row, column_map, flow_type).v
                parsed_date == parse_excel_date(row["fecha"]).dt
                month == row_month(row, column_map, parsed_date)
                subcategory == text_column(row, column_map, "subcategoria", General)
                description0 == text_column(row, column_map, "descripcion", <<>>)
                description == IF description0 = <<>>
                               THEN row_category(row) \o Dash \o subcategory
                               ELSE description0
            IN IF "saldo" \in column_map /\ parse_amount(row["saldo"]) = Fail
               THEN [ok |-> FALSE, sampled |-> TRUE, month |-> month]
               ELSE [ok |-> TRUE, sampled |-> TRUE, month |-> month,
                     date |-> parsed_date,
                     account |-> text_column(row, column_map, "cuenta", General),
                     category |-> row_category(row),
                     subcategory |-> subcategory,
                     project |-> text_column(row, column_map, "proyecto", SinProyecto),
                     project_code |-> text_column(row, column_map, "codigo_proyecto", <<>>),
                     description |-> description,
                     document_number |-> text_column(row, column_map, "numero_documento", <<>>),
                     flow_type |-> flow_type,
                     amount |-> amount]

\* Python's `x or y` on a text
or_else(x, y) == IF x = <<>> THEN y ELSE x

\* fingerprint_of, computed before the description fallback is applied
fingerprint_of_blank_description(user_id, r) ==
    build_record_fingerprint(user_id, r.date, r.account, r.category, r.subcategory, r.project,
                             r.project_code, <<>>, r.flow_type, r.amount, r.document_number)

\* fingerprint of a candidate or of a stored row, for owner user_id
fingerprint_of(user_id, r) ==
    build_record_fingerprint(user_id, r.date, r.account, r.category, r.subcategory, r.project,
                             r.project_code, r.description, r.flow_type, r.amount,
                             r.document_number)

\* fingerprint rebuilt from a stored row, with the `or` defaults of the code
stored_fingerprint(user_id, r) ==
    build_record_fingerprint(user_id, r.date, or_else(r.account, General), r.category,
                             or_else(r.subcategory, General), or_else(r.project, SinProyecto),
                             r.project_code, r.description, r.flow_type, r.amount,
                             r.document_number)

(***************************************************************************)
(* The store.  records and batches are the committed tables                *)
(* accounting_records and upload_batches; blobs are the files under        *)
(* UPLOADS_DIR.  A session (sess) is one upload call's transaction: its    *)
(* flushed batch row, its executed DELETEs (deleted), the objects added    *)
(* with db.add and not flushed (pending; the session has autoflush=False)  *)
(* and the call's local variables.                                         *)
(***************************************************************************)
Max(S) == CHOOSE x \in S : \A y \in S : y <= x

\* the next primary key of a table whose keys are ids
next_id(ids) == IF ids = {} THEN 1 ELSE Max(ids) + 1

in_scope(r, scope) ==
    /\ r.owner_id = scope.owner
    /\ r.company_id = scope.company
    /\ r.vault_id = scope.vault

\* datetime.now() of the model's calls
now == MkDate(2026, 1, 15)

\* the session after the blob is written, the sheets are prepared and the batch row
\* is added and flushed
begin_upload(scope, file, workbook, enforce_period_check, allow_period_update, batch_id, stored_path) ==
    [scope |-> scope, file |-> file,
     enforce_period_check |-> enforce_period_check,
     allow_period_update |-> allow_period_update,
     stored_path |-> stored_path, batch_id |-> batch_id,
     period_label |-> <<>>,
     created |-> 0, duplicates |-> 0, replaced_rows |-> 0, header_found |-> FALSE,
     deleted |-> {}, pending |-> <<>>,
     frames |-> prepared_frames(workbook), status |-> 0]

\* flushed_batch when the label set on the batch object reaches the database before
\* the next query (a session with autoflush)
flushed_batch_autoflush(sess) ==
    [id |-> sess.batch_id, owner_id |-> sess.scope.owner, company_id |-> sess.scope.company,
     vault_id |-> sess.scope.vault, stored_path |-> sess.stored_path,
     period_label |-> sess.period_label, records_inserted |-> 0, duplicates_skipped |-> 0]

\* the session's batch row as the database holds it after db.flush()
flushed_batch(sess) ==
    [id |-> sess.batch_id, owner_id |-> sess.scope.owner, company_id |-> sess.scope.company,
     vault_id |-> sess.scope.vault, stored_path |-> sess.stored_path,
     period_label |-> <<>>, records_inserted |-> 0, duplicates_skipped |-> 0]

\* what the session's queries read: committed rows, its own flushed rows and deletes;
\* never its pending objects
visible_batches(sess, bats) == bats \cup {flushed_batch(sess)}
visible_records(sess, recs) == {r \in recs : r.id \notin sess.deleted}

\* existing_period_batch with the query filtered by owner and company only
existing_period_batch_any_vault(sess, det, bats) ==
    \E b \in bats \cup {flushed_batch(sess)} :
        /\ b.owner_id = sess.scope.owner /\ b.company_id = sess.scope.company
        /\ b.period_label = det.detected_period

\* select(UploadBatch).where(scope, period_label == detected_period) finds a row
existing_period_batch(sess, det, bats) ==
    \E b \in visible_batches(sess, bats) :
        in_scope(b, sess.scope) /\ b.period_label = det.detected_period

\* the call is refused with HTTP 409
period_conflict(sess, det, bats) ==
    /\ det.found
    /\ existing_period_batch(sess, det, bats)
    /\ sess.enforce_period_check /\ ~sess.allow_period_update

\* window_rows with the end of the window included (date <= next month's first day)
window_rows_inclusive(sess, det, recs) ==
    {r \in {x \in recs : x.id \notin sess.deleted} :
        /\ in_scope(r, sess.scope)
        /\ ~DateLess(r.date, det.detected_month_start)
        /\ ~DateLess(det.detected_next_month_start, r.date)}

\* the rows the window DELETE matches
window_rows(sess, det, recs) ==
    {r \in visible_records(sess, recs) :
        /\ in_scope(r, sess.scope)
        /\ ~DateLess(r.date, det.detected_month_start)
        /\ DateLess(r.date, det.detected_next_month_start)}

\* replace_period with replaced_rows assigned instead of accumulated
replace_period_overwrite(sess, det, recs) ==
    IF det.found /\ sess.allow_period_update
    THEN LET gone == {r \in {x \in recs : x.id \notin sess.deleted} :
                         /\ in_scope(r, sess.scope)
                         /\ ~DateLess(r.date, det.detected_month_start)
                         /\ DateLess(r.date, det.detected_next_month_start)}
         IN [sess EXCEPT !.deleted = @ \cup {r.id : r \in gone},
                         !.replaced_rows = Cardinality(gone)]
    ELSE sess

\* replace_period run whether or not allow_period_update is set
replace_period_unconditional(sess, det, recs) ==
    IF det.found
    THEN LET gone == window_rows(sess, det, recs)
         IN [sess EXCEPT !.deleted = @ \cup {r.id : r \in gone},
                         !.replaced_rows = @ + Cardinality(gone)]
    ELSE sess

\* the period replace of one sheet
replace_period(sess, det, recs) ==
    IF det.found /\ sess.allow_period_update
    THEN LET gone == window_rows(sess, det, recs)
         IN [sess EXCEPT !.deleted = @ \cup {r.id : r \in gone},
                         !.replaced_rows = @ + Cardinality(gone)]
    ELSE sess

\* load_fingerprints with the query filtered by owner only
load_fingerprints_owner_only(sess, recs) ==
    {stored_fingerprint(sess.scope.owner, r) :
        r \in {x \in recs : x.id \notin sess.deleted /\ x.owner_id = sess.scope.owner}}

\* existing_fingerprints as loaded for one sheet
load_fingerprints(sess, recs) ==
    {stored_fingerprint(sess.scope.owner, r) :
        r \in {x \in visible_records(sess, recs) : in_scope(x, sess.scope)}}

\* the AccountingRecord built for an accepted row
new_record(sess, p) ==
    [owner_id |-> sess.scope.owner, company_id |-> sess.scope.company,
     vault_id |-> sess.scope.vault, upload_batch_id |-> sess.batch_id,
     date |-> p.date, month |-> p.month, account |-> p.account, category |-> p.category,
     subcategory |-> p.subcategory, project |-> p.project, project_code |-> p.project_code,
     description |-> p.description, document_number |-> p.document_number,
     flow_type |-> p.flow_type, amount |-> p.amount]

\* second pass over a sheet from row i on; acc holds the sheet's existing_fingerprints
\* and period_samples and the session
RECURSIVE second_pass(_, _, _)
second_pass(frame, i, acc) ==
    IF i > Len(frame.rows) THEN acc
    ELSE LET p == parse_row(frame.rows[i], frame.columns)
             samples == IF p.sampled THEN Append(acc.period_samples, p.month)
                        ELSE acc.period_samples
         IN IF ~p.ok THEN second_pass(frame, i + 1, [acc EXCEPT !.period_samples = samples])
            ELSE LET fingerprint == fingerprint_of(acc.sess.scope.owner, p)
                 IN IF fingerprint \in acc.existing_fingerprints
                    THEN second_pass(frame, i + 1,
                             [acc EXCEPT !.period_samples = samples,
                                         !.sess.duplicates = @ + 1])
                    ELSE second_pass(frame, i + 1,
                             [acc EXCEPT !.period_samples = samples,
                                         !.existing_fingerprints = @ \cup {fingerprint},
                                         !.sess.pending = Append(@, new_record(acc.sess, p)),
                                         !.sess.created = @ + 1])

\* sorted(set(non_empty_periods))[0]
first_sorted(samples) ==
    LET S == {samples[i] : i \in DOMAIN samples} \ {<<>>}
    IN IF S = {} THEN <<>> ELSE CHOOSE x \in S : \A y \in S : x = y \/ StrLess(x, y)

\* batch.period_label after a sheet
sheet_label(sess, samples) ==
    IF samples # <<>> /\ sess.period_label = <<>> /\ first_sorted(samples) # <<>>
    THEN first_sorted(samples) ELSE sess.period_label

\* insert_rows with the rows that fail to parse counted as duplicates
insert_rows_counting_failures(sess, frame, existing_fingerprints) ==
    LET acc == second_pass(frame, 1, [sess |-> sess,
                                      existing_fingerprints |-> existing_fingerprints,
                                      period_samples |-> <<>>])
        failed == {i \in DOMAIN frame.rows : ~parse_row(frame.rows[i], frame.columns).ok}
    IN [acc.sess EXCEPT !.period_label = sheet_label(acc.sess, acc.period_samples),
                        !.duplicates = @ + Cardinality(failed)]

\* rows of one sheet ingested with the fingerprints loaded for it
insert_rows(sess, frame, existing_fingerprints) ==
    LET acc == second_pass(frame, 1, [sess |-> sess,
                                      existing_fingerprints |-> existing_fingerprints,
                                      period_samples |-> <<>>])
    IN [acc.sess EXCEPT !.period_label = sheet_label(acc.sess, acc.period_samples)]

\* process_sheet with the period conflict looked up in the records of the period
\* instead of the batches
process_sheet_conflict_on_records(sess, frame, recs, bats) ==
    LET det == detect_period(frame, 1)
        found == [sess EXCEPT !.header_found = TRUE]
    IN IF /\ det.found /\ sess.enforce_period_check /\ ~sess.allow_period_update
          /\ \E r \in visible_records(sess, recs) :
                in_scope(r, sess.scope) /\ r.month = det.detected_period
       THEN [found EXCEPT !.status = 409]
       ELSE LET replaced == replace_period(found, det, recs)
            IN insert_rows(replaced, frame, load_fingerprints(replaced, recs))

\* process_sheet with existing_fingerprints loaded before the window DELETE
process_sheet_load_first(sess, frame, recs, bats) ==
    LET det == detect_period(frame, 1)
        found == [sess EXCEPT !.header_found = TRUE]
    IN IF period_conflict(found, det, bats) THEN [found EXCEPT !.status = 409]
       ELSE insert_rows(replace_period(found, det, recs), frame, load_fingerprints(found, recs))

\* one iteration of the loop over prepared_frames, reading the tables recs and bats
process_sheet(sess, frame, recs, bats) ==
    LET det == detect_period(frame, 1)
        found == [sess EXCEPT !.header_found = TRUE]
    IN IF period_conflict(found, det, bats) THEN [found EXCEPT !.status = 409]
       ELSE LET replaced == replace_period(found, det, recs)
            IN insert_rows(replaced, frame, load_fingerprints(replaced, recs))

\* the loop over prepared_frames from frame k on
RECURSIVE process_frames(_, _, _, _)
process_frames(sess, k, recs, bats) ==
    IF k > Len(sess.frames) \/ sess.status # 0 THEN sess
    ELSE process_frames(process_sheet(sess, sess.frames[k], recs, bats), k + 1, recs, bats)

\* finish_upload without the header_found test
finish_upload_no_400(sess) ==
    IF sess.status # 0 THEN sess
    ELSE LET label == IF sess.period_label = <<>> THEN strftime_Ym(now) ELSE sess.period_label
         IN [sess EXCEPT !.status = 200,
                         !.period_label = IF sess.allow_period_update /\ label # <<>>
                                          THEN label \o Actualizado ELSE label]

\* the end of the call: HTTP 400 when no sheet was eligible, else the label is finalized
finish_upload(sess) ==
    IF sess.status # 0 THEN sess
    ELSE IF ~sess.header_found THEN [sess EXCEPT !.status = 400]
    ELSE LET label == IF sess.period_label = <<>> THEN strftime_Ym(now) ELSE sess.period_label
         IN [sess EXCEPT !.status = 200,
                         !.period_label = IF sess.allow_period_update /\ label # <<>>
                                          THEN label \o Actualizado ELSE label]

\* the batch row written by the commit
final_batch(sess) ==
    [flushed_batch(sess) EXCEPT !.period_label = sess.period_label,
                                !.records_inserted = sess.created,
                                !.duplicates_skipped = sess.duplicates]

\* pending records with the primary keys the flush gives them
RECURSIVE flush_pending(_, _)
flush_pending(pending, ids) ==
    IF pending = <<>> THEN {}
    ELSE LET id == next_id(ids)
         IN {[id |-> id] @@ Head(pending)} \cup flush_pending(Tail(pending), ids \cup {id})

\* accounting_records after db.commit()
committed_records(sess, recs) ==
    LET kept == visible_records(sess, recs)
    IN kept \cup flush_pending(sess.pending, {r.id : r \in kept})

\* the JSON response of a call that returned
response(sess) ==
    [rows_inserted |-> sess.created, rows_replaced |-> sess.replaced_rows,
     duplicates_skipped |-> sess.duplicates, upload_batch_id |-> sess.batch_id,
     stored_file |-> sess.stored_path]

(***************************************************************************)
(* apply_record_filters, for the filters of the model's calls: year,       *)
(* month_number and flow_type (0 and "" stand for an absent parameter).    *)
(***************************************************************************)
\* apply_record_filters without the flow_type condition
apply_record_filters_any_flow(rows, filter) ==
    {r \in rows :
        /\ filter.year # 0 => r.date.y = filter.year
        /\ filter.month_number # 0 => r.date.m = filter.month_number}

apply_record_filters(rows, filter) ==
    {r \in rows :
        /\ filter.year # 0 => r.date.y = filter.year
        /\ filter.month_number # 0 => r.date.m = filter.month_number
        /\ filter.flow_type # "" => r.flow_type = filter.flow_type}

\* func.sum(AccountingRecord.amount) over a group of rows
RECURSIVE sum_amount(_)
sum_amount(rows) ==
    IF rows = {} THEN 0
    ELSE LET r == CHOOSE x \in rows : TRUE IN r.amount + sum_amount(rows \ {r})

\* the rows of SELECT field, sum(amount) ... GROUP BY field, as a set of
\* label and value (the order of the rows is not modelled)
group_by(rows, field) ==
    {[label |-> l, value |-> sum_amount({r \in rows : r[field] = l})] :
        l \in {r[field] : r \in rows}}

\* the response of GET /api/data/summary
summary(recs, scope, filter) ==
    LET rows == apply_record_filters({r \in recs : in_scope(r, scope)}, filter)
    IN [by_category |-> group_by(rows, "category"),
        by_month |-> group_by(rows, "month"),
        by_flow |-> group_by(rows, "flow_type")]

\* the rows the DELETE of clear_records matches
clear_rows(recs, scope, filter) ==
    apply_record_filters({r \in recs : in_scope(r, scope)}, filter)

(***************************************************************************)
(* The calls of the model: scopes, workbooks, filters.                     *)
(***************************************************************************)
MaxUploads == 2

Scopes == {[owner |-> 1, company |-> 1, vault |-> v] : v \in {1, 2}}

StdColumns == {"fecha", "tipo", "categoria", "monto"}
SplitColumns == {"fecha", "tipo", "categoria", "entrada_neta", "salida_neta"}

Dec31 == MkDate(2025, 12, 31)
Jan01 == MkDate(2026, 1, 1)

\* 2025-12-31, ingreso, category "V", 100.000
RowA == [fecha |-> DateCell(Dec31), tipo |-> Text(Ingreso), categoria |-> Text(<<86>>),
         monto |-> Num(100000)]
\* RowA with category "v" and type " Entrada "
RowAu == [fecha |-> DateCell(Dec31), tipo |-> Text(<<32, 69>> \o Tail(Entrada) \o <<32>>),
          categoria |-> Text(<<118>>), monto |-> Num(100000)]
\* 2026-01-01, salida, category "V", 100.000
RowB == [fecha |-> DateCell(Jan01), tipo |-> Text(Salida), categoria |-> Text(<<86>>),
         monto |-> Num(100000)]
\* a row whose amount is empty
RowX == [fecha |-> DateCell(Jan01), tipo |-> Text(Ingreso), categoria |-> Text(<<86>>),
         monto |-> NaN]
\* a row of a sheet with split amount columns: 2026-01-01, ingreso, 250.004
RowS == [fecha |-> DateCell(Jan01), tipo |-> Text(Ingreso), categoria |-> Text(<<86>>),
         entrada_neta |-> Num(250004), salida_neta |-> NaN]
\* a row of a sheet that has no category column
RowN == [fecha |-> DateCell(Jan01), tipo |-> Text(Ingreso), monto |-> Num(100000)]

BalanceColumns == StdColumns \cup {"saldo"}
FullColumns == StdColumns \cup {"descripcion", "subcategoria", "proyecto", "cuenta",
                                "codigo_proyecto", "numero_documento"}

\* rows of a sheet with a balance column
\* 2025-12-31, ingreso, "V", 100.000, balance empty
RowK == [fecha |-> DateCell(Dec31), tipo |-> Text(Ingreso), categoria |-> Text(<<86>>),
         monto |-> Num(100000), saldo |-> NaN]
\* amount empty
RowKx == [fecha |-> DateCell(Jan01), tipo |-> Text(Ingreso), categoria |-> Text(<<86>>),
          monto |-> NaN, saldo |-> Num(0)]
\* flow type "x"
RowKf == [fecha |-> DateCell(Jan01), tipo |-> Text(<<120>>), categoria |-> Text(<<86>>),
          monto |-> Num(100000), saldo |-> Num(0)]
\* date empty
RowKd == [fecha |-> NaN, tipo |-> Text(Ingreso), categoria |-> Text(<<86>>),
          monto |-> Num(100000), saldo |-> Num(0)]
\* 2026-01-01, salida, "V", 100.000, balance 0
RowL == [fecha |-> DateCell(Jan01), tipo |-> Text(Salida), categoria |-> Text(<<86>>),
         monto |-> Num(100000), saldo |-> Num(0)]

\* rows of a sheet with every text column: upper case, and the same in lower case
RowC == [fecha |-> DateCell(Dec31), tipo |-> Text(Ingreso), categoria |-> Text(<<86>>),
         monto |-> Num(100000), descripcion |-> Text(<<68>>), subcategoria |-> Text(<<83>>),
         proyecto |-> Text(<<80>>), cuenta |-> Text(<<65>>),
         codigo_proyecto |-> Text(<<67>>), numero_documento |-> Text(<<78>>)]
RowCu == [fecha |-> DateCell(Dec31), tipo |-> Text(Ingreso), categoria |-> Text(<<118>>),
          monto |-> Num(100000), descripcion |-> Text(<<100>>), subcategoria |-> Text(<<115>>),
          proyecto |-> Text(<<112>>), cuenta |-> Text(<<97>>),
          codigo_proyecto |-> Text(<<99>>), numero_documento |-> Text(<<110>>)]

\* The workbooks of the model's uploads, by file number:
\*  1 one sheet, two rows that differ in letter case only
\*  2 two sheets of different months, the first spanning both months
\*  3 no sheet with a table
\*  4 a sheet without the mandatory columns, then a sheet with an unparseable row
\*  5 one sheet whose first row is of a later month than its second
\*  6 two sheets holding the same row
\*  7 one sheet none of whose rows parses
\*  8 one sheet with a balance column: a row that fails on its balance, rows that fail
\*    on amount, flow type and date, and a row of the next month that parses
\*  9 one sheet that has the header and columns and no data row
\* 10 one sheet, two rows that differ in the letter case of every text field
\* 11 one sheet, the lower-case row of file 10
\* 12 the two rows of file 10, one per sheet
Workbooks ==
    << << Frame(StdColumns, <<RowA, RowAu>>) >>,
       << Frame(StdColumns, <<RowA, RowB>>), Frame(SplitColumns, <<RowS>>) >>,
       << NoTable >>,
       << Frame({"fecha", "tipo", "monto"}, <<RowN>>), Frame(StdColumns, <<RowX, RowB>>) >>,
       << Frame(StdColumns, <<RowB, RowA>>) >>,
       << Frame(StdColumns, <<RowA>>), Frame(StdColumns, <<RowA>>) >>,
       << Frame(StdColumns, <<RowX>>) >>,
       << Frame(BalanceColumns, <<RowK, RowKx, RowKf, RowKd, RowL>>) >>,
       << Frame(StdColumns, <<>>) >>,
       << Frame(FullColumns, <<RowC, RowCu>>) >>,
       << Frame(FullColumns, <<RowCu>>) >>,
       << Frame(FullColumns, <<RowC>>), Frame(FullColumns, <<RowCu>>) >> >>

\* the files of the calls of Spec, and of the calls of SpecRows
Files == 1 .. 7
RowFiles == {5, 8, 9, 10, 11, 12}

NoFilter == [year |-> 0, month_number |-> 0, flow_type |-> ""]
Filters == {NoFilter, [NoFilter EXCEPT !.month_number = 12]}

(***************************************************************************)
(* upload_excel as one call: the whole handler against the committed       *)
(* tables, ending in the commit (200) or in the rollback of a refused call *)
(* (400, 409), whose blob is removed.                                      *)
(***************************************************************************)
\* a stored file name no stored blob has
fresh_path(blbs) == next_id({b.path : b \in blbs})

upload_excel(scope, file, enforce_period_check, allow_period_update, recs, bats, blbs) ==
    LET sess0 == begin_upload(scope, file, Workbooks[file], enforce_period_check,
                              allow_period_update, next_id({b.id : b \in bats}),
                              fresh_path(blbs))
    IN finish_upload(process_frames(sess0, 1, recs, bats))

\* stored_records when the table refuses a row whose fingerprint the scope already
\* holds (a unique index on scope and fingerprint, conflicting rows dropped)
stored_records_unique_index(sess, recs) ==
    IF sess.status # 200 THEN recs
    ELSE LET kept == visible_records(sess, recs)
             held == {stored_fingerprint(r.owner_id, r) : r \in {x \in kept : in_scope(x, sess.scope)}}
             Fresh(p) == fingerprint_of(p.owner_id, p) \notin held
         IN kept \cup flush_pending(SelectSeq(sess.pending, Fresh), {r.id : r \in kept})

\* stored_records of a session that is committed when it is closed
stored_records_commit_on_close(sess, recs) ==
    LET kept == {r \in recs : r.id \notin sess.deleted}
    IN kept \cup flush_pending(sess.pending, {r.id : r \in kept})

\* The tables and the upload directory after the call.  Only db.commit() makes the
\* session's work durable: get_db closes the session of a refused call, which rolls
\* it back; the handler unlinks the blob before it raises.
stored_records(sess, recs) == IF sess.status = 200 THEN committed_records(sess, recs) ELSE recs

\* stored_batches when the flushed batch row outlives a call that is refused
stored_batches_flush_persists(sess, bats) ==
    bats \cup {IF sess.status = 200 THEN final_batch(sess) ELSE flushed_batch(sess)}

stored_batches(sess, bats) == IF sess.status = 200 THEN bats \cup {final_batch(sess)} ELSE bats

stored_blobs(sess, blbs) ==
    LET written == blbs \cup {[path |-> sess.stored_path, file |-> sess.file]}
    IN IF sess.status \in {400, 409} THEN {b \in written : b.path # sess.stored_path}
       ELSE written

\* what the caller gets: the JSON body of a 200, the status alone otherwise
reply(sess) == IF sess.status = 200 THEN response(sess) ELSE [detail |-> sess.status]

(***************************************************************************)
(* The HTTP layer in front of the handlers: registered users, the cookies  *)
(* each client holds, the failed logins inside the rate-limit window.      *)
(* A user is named by its id; 0 stands for an absent cookie or header.     *)
(***************************************************************************)
Clients == {1, 2}
UserNames == {1, 2}
Tokens == {1, 2}
LOGIN_RATE_LIMIT_MAX_ATTEMPTS == 10

\* the addresses get_client_ip gives the login requests
IPs == {1, 2}

NoCookies == [access_token |-> 0, csrf_token |-> 0]

web == <<users, cookies, login_attempts>>

WebInit ==
    /\ users = {}
    /\ cookies = [c \in Clients |-> NoCookies]
    /\ login_attempts = [ip_address \in IPs |-> 0]

\* the cookies set_auth_cookies sets: the access token of the user and a new CSRF token
set_auth_cookies(username, csrf_token) ==
    [access_token |-> username, csrf_token |-> csrf_token]

\* set_security_headers answers 403: a writing request to a path that is not exempt
\* must carry the CSRF cookie and an equal x-csrf-token header
csrf_rejected(exempt, csrf_cookie, csrf_header) ==
    ~exempt /\ (csrf_cookie = 0 \/ csrf_header = 0 \/ csrf_cookie # csrf_header)

\* get_current_user: the user of the access_token cookie, 0 when it raises 401
get_current_user(jar) ==
    IF jar.access_token = 0 \/ jar.access_token \notin users THEN 0 ELSE jar.access_token

\* the company and vault resolve_company and resolve_vault give a user's call without
\* company_id and vault_id: its first ones
default_scope(user) == [owner |-> user, company |-> user, vault |-> user]

\* Concurrent requests: each worker is one request in flight, tx[w] its session.
Workers == {1, 2}
Idle == [pc |-> "idle"]

Init ==
    /\ records = {}
    /\ batches = {}
    /\ blobs = {}
    /\ calls = 0
    /\ last = [op |-> "none"]
    /\ tx = [w \in Workers |-> Idle]
    /\ WebInit

\* POST /api/data/upload
Upload(scope, file, enforce_period_check, allow_period_update) ==
    /\ calls < MaxUploads
    /\ \E sess \in {upload_excel(scope, file, enforce_period_check, allow_period_update,
                                  records, batches, blobs)} :
          /\ calls' = calls + 1
          /\ last' = [op |-> "upload", scope |-> scope, file |-> file,
                      enforce_period_check |-> enforce_period_check,
                      allow_period_update |-> allow_period_update,
                      status |-> sess.status, created |-> sess.created,
                      response |-> reply(sess)]
          /\ records' = stored_records(sess, records)
          /\ batches' = stored_batches(sess, batches)
          /\ blobs' = stored_blobs(sess, blobs)
    /\ UNCHANGED <<tx, web>>

\* Clear when the batches left without records are deleted with them
Clear_dropping_batches(scope, filter) ==
    /\ \E gone \in {clear_rows(records, scope, filter)} :
          /\ records' = records \ gone
          /\ batches' = {b \in batches :
                            b.records_inserted = 0
                            \/ \E r \in records \ gone : r.upload_batch_id = b.id}
          /\ last' = [op |-> "clear", scope |-> scope,
                      deleted_rows |-> Cardinality(gone)]
    /\ UNCHANGED <<blobs, calls, tx, web>>

\* DELETE /api/data/clear
Clear(scope, filter) ==
    /\ \E gone \in {clear_rows(records, scope, filter)} :
          /\ records' = records \ gone
          /\ last' = [op |-> "clear", scope |-> scope,
                      deleted_rows |-> Cardinality(gone)]
    /\ UNCHANGED <<batches, blobs, calls, tx, web>>

Next ==
    \/ \E scope \in Scopes, file \in Files, e \in BOOLEAN, a \in BOOLEAN :
          Upload(scope, file, e, a)
    \/ \E scope \in Scopes, filter \in Filters : Clear(scope, filter)

Spec == Init /\ [][Next]_vars

(***************************************************************************)
(* Store failures.  A store operation of the call raises: the period-batch *)
(* lookup, the window DELETE or the fingerprint query of one sheet, or the *)
(* final commit.  The handler catches nothing around them, so the          *)
(* exception leaves it (HTTP 500) and get_db closes the session.           *)
(***************************************************************************)
StoreOps == {"lookup", "delete", "query", "commit"}
FaultFiles == {2, 3, 5}
Faults == [sheet : 1 .. 2, op : StoreOps]

\* the operation of the fault is executed on the sheet of the fault
fault_reached(sess, det, op, bats) ==
    CASE op = "lookup" -> det.found
      [] op = "delete" -> det.found /\ ~period_conflict(sess, det, bats)
                          /\ sess.allow_period_update
      [] op = "query" -> ~period_conflict(sess, det, bats)
      [] op = "commit" -> FALSE

\* the call whose store operation op raises if the sheet of the fault executes it:
\* status 500 where the operation is, else the call as it ends without a failure
store_error_on_sheet(sess, det, op, bats, whole) ==
    IF fault_reached(sess, det, op, bats) THEN [sess EXCEPT !.status = 500] ELSE whole

\* whole: the call without a failure; before: the call up to the sheet of the fault
store_error_outcome(sess0, whole, before, fault, bats) ==
    IF fault.op = "commit" THEN [whole EXCEPT !.status = IF @ = 200 THEN 500 ELSE @]
    ELSE IF fault.sheet > Len(sess0.frames) \/ before.status # 0 THEN whole
    ELSE store_error_on_sheet([before EXCEPT !.header_found = TRUE, !.frames = sess0.frames],
                              detect_period(sess0.frames[fault.sheet], 1),
                              fault.op, bats, whole)

store_error_session(sess0, fault, recs, bats) ==
    store_error_outcome(sess0,
                        finish_upload(process_frames(sess0, 1, recs, bats)),
                        process_frames([sess0 EXCEPT !.frames = SubSeq(@, 1, fault.sheet - 1)],
                                       1, recs, bats),
                        fault, bats)

\* upload_excel when the store raises at fault: the call ends as usual if it never
\* executes that operation, else with status 500 where the operation is
upload_excel_store_error(scope, file, enforce_period_check, allow_period_update, recs, bats, blbs, fault) ==
    store_error_session(begin_upload(scope, file, Workbooks[file], enforce_period_check,
                                     allow_period_update, next_id({b.id : b \in bats}),
                                     fresh_path(blbs)),
                        fault, recs, bats)

\* POST /api/data/upload during which the store may raise
UploadStoreError(scope, file, enforce_period_check, allow_period_update, fault) ==
    /\ calls < MaxUploads
    /\ \E sess \in {upload_excel_store_error(scope, file, enforce_period_check,
                                              allow_period_update, records, batches, blobs,
                                              fault)} :
          /\ calls' = calls + 1
          /\ last' = [op |-> "upload", scope |-> scope, file |-> file,
                      enforce_period_check |-> enforce_period_check,
                      allow_period_update |-> allow_period_update,
                      status |-> sess.status, created |-> sess.created,
                      response |-> reply(sess)]
          /\ records' = stored_records(sess, records)
          /\ batches' = stored_batches(sess, batches)
          /\ blobs' = stored_blobs(sess, blobs)
    /\ UNCHANGED <<tx, web>>

NextFault ==
    \/ \E scope \in Scopes, file \in FaultFiles, e \in BOOLEAN, a \in BOOLEAN :
          Upload(scope, file, e, a)
    \/ \E scope \in Scopes, file \in FaultFiles, e \in BOOLEAN, a \in BOOLEAN,
          fault \in Faults : UploadStoreError(scope, file, e, a, fault)
    \/ \E scope \in Scopes, filter \in Filters : Clear(scope, filter)

SpecFault == Init /\ [][NextFault]_vars

\* The same calls over the workbooks that exercise the row-level rules.
NextRows ==
    \/ \E scope \in Scopes, file \in RowFiles, e \in BOOLEAN, a \in BOOLEAN :
          Upload(scope, file, e, a)
    \/ \E scope \in Scopes, filter \in Filters : Clear(scope, filter)

SpecRows == Init /\ [][NextRows]_vars

\* The same calls over the workbooks that differ in which sheets are eligible.
SheetFiles == {2, 3, 4, 9}

NextSheets ==
    \/ \E scope \in Scopes, file \in SheetFiles, e \in BOOLEAN, a \in BOOLEAN :
          Upload(scope, file, e, a)
    \/ \E scope \in Scopes, filter \in Filters : Clear(scope, filter)

SpecSheets == Init /\ [][NextSheets]_vars

\* GET /api/data/summary
Summary(scope, filter) ==
    /\ last' = [op |-> "summary", scope |-> scope, filter |-> filter,
                response |-> summary(records, scope, filter)]
    /\ UNCHANGED <<records, batches, blobs, calls, tx, web>>

SummaryFiles == {2, 5}
FlowTypes == {"ingreso", "egreso", "otro"}
SummaryFilters ==
    {[NoFilter EXCEPT !.flow_type = f] : f \in FlowTypes \cup {""}}
        \cup {[NoFilter EXCEPT !.flow_type = "egreso", !.month_number = 12]}

NextSummary ==
    \/ \E scope \in Scopes, file \in SummaryFiles, e \in BOOLEAN, a \in BOOLEAN :
          Upload(scope, file, e, a)
    \/ \E scope \in Scopes, filter \in Filters : Clear(scope, filter)
    \/ \E scope \in Scopes, filter \in SummaryFilters : Summary(scope, filter)

SpecSummary == Init /\ [][NextSummary]_vars

(***************************************************************************)
(* Requests of a client through the HTTP layer.                            *)
(***************************************************************************)
HttpFiles == {3, 10}

\* POST /api/auth/register (exempt from the CSRF check)
Register(username) ==
    /\ users' = users \cup {username}
    /\ last' = [op |-> "register", status |-> IF username \in users THEN 400 ELSE 200]
    /\ UNCHANGED <<records, batches, blobs, calls, tx, cookies, login_attempts>>

\* Mutant: the address is limited only after more failures than the limit
is_rate_limited_above_limit(ip_address) ==
    login_attempts[ip_address] > LOGIN_RATE_LIMIT_MAX_ATTEMPTS

\* login_attempts[ip] counts the failures of the address recorded inside the window
\* (the timestamps is_rate_limited keeps)
is_rate_limited(ip_address) == login_attempts[ip_address] >= LOGIN_RATE_LIMIT_MAX_ATTEMPTS

\* POST /api/auth/login (exempt from the CSRF check) from ip_address; password_ok:
\* the password is the user's (a password of more than 72 bytes never is)
Login(client, ip_address, username, password_ok, csrf_token) ==
    \E request \in {[op |-> "login", ip_address |-> ip_address,
                      correct |-> username \in users /\ password_ok]} :
        IF is_rate_limited(ip_address)
        THEN /\ last' = request @@ [status |-> 429]
             /\ UNCHANGED <<records, batches, blobs, calls, tx, web>>
        ELSE IF username \notin users \/ ~password_ok
        THEN /\ login_attempts' = [login_attempts EXCEPT ![ip_address] = @ + 1]
             /\ last' = request @@ [status |-> 401]
             /\ UNCHANGED <<records, batches, blobs, calls, tx, users, cookies>>
        ELSE /\ login_attempts' = [login_attempts EXCEPT ![ip_address] = 0]
             /\ cookies' = [cookies EXCEPT ![client] = set_auth_cookies(username, csrf_token)]
             /\ last' = request @@ [status |-> 200]
             /\ UNCHANGED <<records, batches, blobs, calls, tx, users>>

\* time passes: the oldest failures of an address leave the rate-limit window
AttemptsExpire(ip_address) ==
    /\ \E left \in 0 .. login_attempts[ip_address] - 1 :
          login_attempts' = [login_attempts EXCEPT ![ip_address] = left]
    /\ UNCHANGED <<records, batches, blobs, calls, last, tx, users, cookies>>

\* POST /api/data/upload by a client that sends its cookies and the header
\* x-csrf-token = csrf_header (0: no header), without query parameters
PostUpload(client, csrf_header, file) ==
    /\ calls < MaxUploads
    /\ calls' = calls + 1
    /\ \E user \in {get_current_user(cookies[client])} :
          IF csrf_rejected(FALSE, cookies[client].csrf_token, csrf_header) \/ user = 0
          THEN /\ last' = [op |-> "post_upload", client |-> client,
                           csrf_header |-> csrf_header, file |-> file,
                           status |-> IF user = 0 /\ ~csrf_rejected(FALSE,
                                                         cookies[client].csrf_token,
                                                         csrf_header)
                                      THEN 401 ELSE 403,
                           logged_in |-> user # 0]
               /\ UNCHANGED <<records, batches, blobs>>
          ELSE \E sess \in {upload_excel(default_scope(user), file, FALSE, FALSE,
                                         records, batches, blobs)} :
                  /\ last' = [op |-> "post_upload", client |-> client,
                              csrf_header |-> csrf_header, file |-> file,
                              status |-> sess.status, logged_in |-> TRUE]
                  /\ records' = stored_records(sess, records)
                  /\ batches' = stored_batches(sess, batches)
                  /\ blobs' = stored_blobs(sess, blobs)
    /\ UNCHANGED <<tx, web>>

\* GET /api/data/records by a client that sends its cookies
GetRecords(client) ==
    /\ \E user \in {get_current_user(cookies[client])} :
          last' = [op |-> "records", client |-> client,
                   status |-> IF user = 0 THEN 401 ELSE 200,
                   rows |-> IF user = 0 THEN 0
                            ELSE Cardinality({r \in records : in_scope(r, default_scope(user))})]
    /\ UNCHANGED <<records, batches, blobs, calls, tx, web>>

\* the address the clients of SpecHttp call from
HttpIP == CHOOSE ip_address \in IPs : \A other \in IPs : ip_address <= other

NextHttp ==
    \/ \E username \in UserNames : Register(username)
    \/ \E client \in Clients, username \in UserNames, password_ok \in BOOLEAN,
          csrf_token \in Tokens : Login(client, HttpIP, username, password_ok, csrf_token)
    \/ AttemptsExpire(HttpIP)
    \/ \E client \in Clients, csrf_header \in Tokens \cup {0}, file \in HttpFiles :
          PostUpload(client, csrf_header, file)
    \/ \E client \in Clients : GetRecords(client)

SpecHttp == Init /\ [][NextHttp]_vars

\* Logins of the clients from several addresses.
NextLogin ==
    \/ \E username \in UserNames : Register(username)
    \/ \E client \in Clients, ip_address \in IPs, username \in UserNames,
          password_ok \in BOOLEAN, csrf_token \in Tokens :
          Login(client, ip_address, username, password_ok, csrf_token)
    \/ \E ip_address \in IPs : AttemptsExpire(ip_address)

SpecLogin == Init /\ [][NextLogin]_vars

(***************************************************************************)
(* Concurrent calls.  Each worker makes one call.  An upload runs as the   *)
(* sequence of its store operations: the batch INSERT (flush), and per     *)
(* sheet the period query, the window DELETE and the fingerprint query     *)
(* followed by the in-memory second pass; then the commit.  A session      *)
(* reads the committed tables and its own uncommitted writes; its work     *)
(* reaches the tables at its commit (stored_records, stored_batches).      *)
(* The store is taken to run the sessions' statements without lock         *)
(* failures.                                                               *)
(***************************************************************************)
\* the committed store after file 5 was uploaded into each scope in turn
seed_session(scope, recs, bats, blbs) == upload_excel(scope, 5, FALSE, FALSE, recs, bats, blbs)

SeedScope1 == [owner |-> 1, company |-> 1, vault |-> 1]
SeedScope2 == [owner |-> 1, company |-> 1, vault |-> 2]

ConcFiles == {2, 3, 6}

active(w) == tx[w].pc \in {"check", "replace", "load", "finish"}

\* primary keys of upload_batches rows, committed or flushed by a session in flight
used_batch_ids == {b.id : b \in batches} \cup {tx[w].batch_id : w \in {v \in Workers : active(v)}}

\* the store is empty, or holds what two sequential uploads of file 5 left
InitConc ==
    /\ \E s1 \in {seed_session(SeedScope1, {}, {}, {})} :
       \E r1 \in {stored_records(s1, {})}, b1 \in {stored_batches(s1, {})},
          f1 \in {stored_blobs(s1, {})} :
       \E s2 \in {seed_session(SeedScope2, r1, b1, f1)} :
       \E seeded \in BOOLEAN :
          /\ records = IF seeded THEN stored_records(s2, r1) ELSE {}
          /\ batches = IF seeded THEN stored_batches(s2, b1) ELSE {}
          /\ blobs = IF seeded THEN stored_blobs(s2, f1) ELSE {}
    /\ calls = 0
    /\ last = [op |-> "none"]
    /\ tx = [w \in Workers |-> Idle]
    /\ WebInit

\* the blob is written, the sheets are prepared, the batch row is added and flushed
CBegin(w, scope, file, enforce_period_check, allow_period_update) ==
    /\ tx[w].pc = "idle"
    /\ \E sess \in {begin_upload(scope, file, Workbooks[file], enforce_period_check,
                                  allow_period_update, next_id(used_batch_ids),
                                  fresh_path(blobs))} :
          /\ blobs' = blobs \cup {[path |-> sess.stored_path, file |-> file]}
          /\ tx' = [tx EXCEPT ![w] = [pc |-> IF sess.frames = <<>> THEN "finish" ELSE "check",
                                       k |-> 1, op |-> "upload"] @@ sess]
    /\ UNCHANGED <<records, batches, calls, last, web>>

\* first pass and period query of sheet k; a conflict ends the call with 409
CCheck(w) ==
    /\ tx[w].pc = "check"
    /\ \E sess \in {[tx[w] EXCEPT !.header_found = TRUE]} :
          IF period_conflict(sess, detect_period(sess.frames[sess.k], 1), batches)
          THEN /\ tx' = [tx EXCEPT ![w] = [sess EXCEPT !.status = 409, !.pc = "done"]]
               /\ blobs' = stored_blobs([sess EXCEPT !.status = 409], blobs)
          ELSE /\ tx' = [tx EXCEPT ![w] = [sess EXCEPT !.pc = "replace"]]
               /\ UNCHANGED blobs
    /\ UNCHANGED <<records, batches, calls, last, web>>

\* window DELETE of sheet k
CReplace(w) ==
    /\ tx[w].pc = "replace"
    /\ tx' = [tx EXCEPT ![w] =
                [replace_period(tx[w], detect_period(tx[w].frames[tx[w].k], 1), records)
                    EXCEPT !.pc = "load"]]
    /\ UNCHANGED <<records, batches, blobs, calls, last, web>>

\* fingerprint query and second pass of sheet k
CInsert(w) ==
    /\ tx[w].pc = "load"
    /\ \E sess \in {insert_rows(tx[w], tx[w].frames[tx[w].k],
                                 load_fingerprints(tx[w], records))} :
          tx' = [tx EXCEPT ![w] =
                   [sess EXCEPT !.k = @ + 1,
                                !.pc = IF sess.k + 1 > Len(sess.frames) THEN "finish"
                                       ELSE "check"]]
    /\ UNCHANGED <<records, batches, blobs, calls, last, web>>

\* the end of the call: 400 and rollback, or the commit
CFinish(w) ==
    /\ tx[w].pc = "finish"
    /\ \E sess \in {finish_upload(tx[w])} :
          /\ records' = stored_records(sess, records)
          /\ batches' = stored_batches(sess, batches)
          /\ blobs' = stored_blobs(sess, blobs)
          /\ tx' = [tx EXCEPT ![w] = [sess EXCEPT !.pc = "done"]]
    /\ UNCHANGED <<calls, last, web>>

\* DELETE /api/data/clear as one transaction
CClear(w, scope, filter) ==
    /\ tx[w].pc = "idle"
    /\ \E gone \in {clear_rows(records, scope, filter)} :
          /\ records' = records \ gone
          /\ tx' = [tx EXCEPT ![w] = [pc |-> "done", op |-> "clear", scope |-> scope,
                                       filter |-> filter,
                                       deleted_rows |-> Cardinality(gone)]]
    /\ UNCHANGED <<batches, blobs, calls, last, web>>

NextConc ==
    \/ \E w \in Workers, scope \in Scopes, file \in ConcFiles, e \in BOOLEAN, a \in BOOLEAN :
          CBegin(w, scope, file, e, a)
    \/ \E w \in Workers : CCheck(w)
    \/ \E w \in Workers : CReplace(w)
    \/ \E w \in Workers : CInsert(w)
    \/ \E w \in Workers : CFinish(w)
    \/ \E w \in Workers, scope \in Scopes, filter \in Filters : CClear(w, scope, filter)

SpecConc == InitConc /\ [][NextConc]_vars

(***************************************************************************)
(* Properties.                                                             *)
(***************************************************************************)
\* the step is an upload call, described by last'
UploadDone == calls' = calls + 1 /\ last'.op = "upload"

\* a committed upload is described by last
Committed == last.op = "upload" /\ last.status = 200

same_scope(r1, r2) ==
    r1.owner_id = r2.owner_id /\ r1.company_id = r2.company_id /\ r1.vault_id = r2.vault_id

\* the periods the first pass detects in the eligible sheets of a file
DetectedPeriods(file) ==
    LET frames == prepared_frames(Workbooks[file])
    IN {detect_period(frames[k], 1).detected_period :
            k \in {j \in DOMAIN frames : detect_period(frames[j], 1).found}}

\* date lies in the calendar month of the first parseable row of an eligible sheet
InWindows(file, date) ==
    LET frames == prepared_frames(Workbooks[file])
    IN \E k \in DOMAIN frames :
          LET det == detect_period(frames[k], 1)
          IN /\ det.found
             /\ det.detected_month_start.y = date.y
             /\ det.detected_month_start.m = date.m

\* the file a committed batch stored
BatchFile(b) == (CHOOSE bl \in blobs : bl.path = b.stored_path).file

\* C1: no two persisted records of one (owner, company, vault) scope have equal
\* fingerprints.
C1_UniqueFingerprints ==
    \A r1, r2 \in records :
        (r1 # r2 /\ same_scope(r1, r2))
            => fingerprint_of(r1.owner_id, r1) # fingerprint_of(r2.owner_id, r2)

\* a committed upload is followed by an upload of the same file into the same scope
\* with both flags false
Reupload ==
    /\ Committed
    /\ UploadDone
    /\ last'.file = last.file /\ last'.scope = last.scope
    /\ ~last'.enforce_period_check /\ ~last'.allow_period_update

\* C2 as claimed: the second upload of a file inserts nothing and skips as many
\* duplicates as the first upload inserted.
C2_IdempotentAsClaimed ==
    [][Reupload =>
          /\ last'.status = 200
          /\ last'.response.rows_inserted = 0
          /\ last'.response.duplicates_skipped = last.response.rows_inserted]_vars

\* C2 amended: when the first upload replaced no rows, the second upload inserts
\* nothing and skips as many duplicates as the first upload inserted and skipped
\* together (every row of the file that parses).
C2_Idempotent ==
    [][(Reupload /\ last.response.rows_replaced = 0) =>
          /\ last'.status = 200
          /\ last'.response.rows_inserted = 0
          /\ last'.response.duplicates_skipped =
                last.response.rows_inserted + last.response.duplicates_skipped]_vars

\* a second upload of a file whose first upload both inserted and skipped rows
C2_Witness ==
    /\ Committed
    /\ ~last.enforce_period_check /\ ~last.allow_period_update
    /\ last.response.rows_inserted = 0
    /\ \E b \in batches :
          /\ b.id # last.response.upload_batch_id
          /\ in_scope(b, last.scope)
          /\ BatchFile(b) = last.file
          /\ b.records_inserted > 0 /\ b.duplicates_skipped > 0
          /\ last.response.duplicates_skipped = b.records_inserted + b.duplicates_skipped

\* the period the first pass detects in the first eligible sheet of a file that has
\* a parseable row
FilePeriod(file) ==
    LET frames == prepared_frames(Workbooks[file])
        ks == {j \in DOMAIN frames : detect_period(frames[j], 1).found}
    IN {detect_period(frames[k], 1).detected_period :
            k \in {j \in ks : \A i \in ks : j <= i}}

\* C3: an upload with enforce_period_check and without allow_period_update, a sheet
\* of which is detected as period P, is refused with 409 when an earlier committed
\* batch of the scope ingested a file detected as period P.
C3_ConflictDetected ==
    (/\ last.op = "upload"
     /\ last.enforce_period_check /\ ~last.allow_period_update
     /\ \E b \in batches :
           /\ last.status = 200 => b.id # last.response.upload_batch_id
           /\ in_scope(b, last.scope)
           /\ FilePeriod(BatchFile(b)) \cap DetectedPeriods(last.file) # {})
        => last.status = 409

\* C4: an upload refused with a period conflict leaves records, batches and blobs
\* exactly as they were before the call.
C4_ConflictLeavesNoTrace ==
    [][(UploadDone /\ last'.status = 409) => UNCHANGED <<records, batches, blobs>>]_vars

\* a conflict found on a later sheet, after rows of an earlier sheet were accepted
C4_Witness ==
    last.op = "upload" /\ last.status = 409 /\ last.created > 0 /\ records # {}

\* C5: a committed upload with allow_period_update deletes, among the records the
\* scope held before the call, exactly those dated in the calendar month detected
\* for one of its sheets.
C5_ReplaceExact ==
    [][(UploadDone /\ last'.status = 200 /\ last'.allow_period_update) =>
          \A r \in records :
              in_scope(r, last'.scope) =>
                  (r \in records' <=> ~InWindows(last'.file, r.date))]_vars

\* a replace that deleted records and kept a record of another month
C5_Witness ==
    /\ Committed /\ last.allow_period_update
    /\ last.response.rows_replaced > 0
    /\ \E r \in records :
          /\ in_scope(r, last.scope)
          /\ r.upload_batch_id # last.response.upload_batch_id
          /\ ~InWindows(last.file, r.date)

\* C6: rows_replaced of a committed upload is the number of records of the scope
\* dated inside the replaced windows before the call when allow_period_update is
\* set, and 0 when it is not.
C6_RowsReplacedCount ==
    [][(UploadDone /\ last'.status = 200) =>
          last'.response.rows_replaced =
              IF last'.allow_period_update
              THEN Cardinality({r \in records : in_scope(r, last'.scope)
                                                /\ InWindows(last'.file, r.date)})
              ELSE 0]_vars

\* a replace whose two sheets each deleted a record
C6_Witness ==
    /\ Committed /\ last.allow_period_update
    /\ Len(prepared_frames(Workbooks[last.file])) = 2
    /\ last.response.rows_replaced = 2

\* C7: an upload of a workbook none of whose sheets is eligible fails with 400 and
\* leaves records, batches and blobs as they were, whatever the flags.
C7_NoHeaderLeavesNoTrace ==
    [][(UploadDone /\ \A i \in DOMAIN Workbooks[last'.file] :
                         ~eligible(Workbooks[last'.file][i])) =>
          /\ last'.status = 400
          /\ UNCHANGED <<records, batches, blobs>>]_vars

\* a workbook without an eligible sheet was refused over a ledger that holds records
C7_Witness ==
    /\ last.op = "upload" /\ last.status = 400
    /\ last.allow_period_update
    /\ \E r \in records : in_scope(r, last.scope)

\* C8: the records one upload call inserted have pairwise different fingerprints
\* (a row equal to one accepted earlier in the call, in any sheet, is skipped).
C8_WorkingSetShared ==
    Committed =>
        \A r1, r2 \in records :
            (/\ r1 # r2
             /\ r1.upload_batch_id = last.response.upload_batch_id
             /\ r2.upload_batch_id = last.response.upload_batch_id)
                => fingerprint_of(r1.owner_id, r1) # fingerprint_of(r2.owner_id, r2)

\* C9: the outcome of an upload (status, rows inserted, duplicates skipped, rows
\* replaced) is the outcome it has when the other scopes hold no records.
C9_ScopeIsolatedDedup ==
    [][UploadDone =>
          \E alone \in {upload_excel(last'.scope, last'.file, last'.enforce_period_check,
                                     last'.allow_period_update,
                                     {r \in records : in_scope(r, last'.scope)},
                                     batches, blobs)} :
              last'.status = alone.status /\ last'.response = reply(alone)]_vars

\* an upload inserted a row whose fingerprint a record of another scope has
C9_Witness ==
    /\ Committed
    /\ \E r1, r2 \in records :
          /\ r1.upload_batch_id = last.response.upload_batch_id
          /\ ~same_scope(r1, r2)
          /\ fingerprint_of(r1.owner_id, r1) = fingerprint_of(r2.owner_id, r2)

\* the rows of a table that belong to a scope
OfScope(rows, scope) == {r \in rows : in_scope(r, scope)}

\* a record without its primary key and batch key; a batch row without its keys
Content(r) == [f \in DOMAIN r \ {"id", "upload_batch_id"} |-> r[f]]
BatchContent(b) == [f \in DOMAIN b \ {"id", "stored_path"} |-> b[f]]

\* worker w's call ends in this step
Ends(w) == tx[w].pc # "done" /\ tx'[w].pc = "done"

\* no other worker's call is addressed to the scope of w's call
OtherScopes(w) ==
    \A v \in Workers \ {w} : tx[v].pc = "idle" \/ tx[v].scope # tx'[w].scope

\* the upload that ends leaves its scope, and returns, what it does when run alone
\* on the tables of its scope
AsIfAlone(w) ==
    \E recs \in {OfScope(records, tx'[w].scope)}, bats \in {OfScope(batches, tx'[w].scope)} :
    \E alone \in {upload_excel(tx'[w].scope, tx'[w].file, tx'[w].enforce_period_check,
                               tx'[w].allow_period_update, recs, bats, blobs)} :
       /\ tx'[w].status = alone.status
       /\ tx'[w].created = alone.created
       /\ tx'[w].duplicates = alone.duplicates
       /\ tx'[w].replaced_rows = alone.replaced_rows
       /\ tx'[w].period_label = alone.period_label
       /\ {Content(r) : r \in OfScope(records', tx'[w].scope)}
             = {Content(r) : r \in stored_records(alone, recs)}
       /\ Cardinality(OfScope(records', tx'[w].scope))
             = Cardinality(stored_records(alone, recs))
       /\ {BatchContent(b) : b \in OfScope(batches', tx'[w].scope)}
             = {BatchContent(b) : b \in stored_batches(alone, bats)}

\* C10: a step of a call changes no record or batch of another scope, and an upload
\* that runs while only calls to other scopes run ends as if it had run alone.
C10_ScopesDoNotInterfere ==
    [][\A w \in Workers :
          /\ tx'[w] # tx[w] =>
                \A scope \in Scopes \ {tx'[w].scope} :
                    /\ OfScope(records', scope) = OfScope(records, scope)
                    /\ OfScope(batches', scope) = OfScope(batches, scope)
          /\ (Ends(w) /\ tx'[w].op = "upload" /\ OtherScopes(w)) => AsIfAlone(w)]_vars

\* an upload into one scope began and committed while an upload into the other
\* scope, which has deleted rows, was still running
C10_Witness ==
    \E w, v \in Workers :
        /\ tx[w].pc = "load" /\ tx[w].replaced_rows > 0
        /\ tx[v].pc = "done" /\ tx[v].op = "upload" /\ tx[v].status = 200
        /\ tx[v].created > 0
        /\ tx[v].scope # tx[w].scope
        /\ tx[v].batch_id > tx[w].batch_id

\* the rows of a sheet that the second pass parses
parsed_rows(frame) ==
    LET Parses(row) == parse_row(row, frame.columns).ok
    IN SelectSeq(frame.rows, Parses)

\* the upload of the same workbook with the rows that fail to parse taken out of its
\* eligible sheets
AsIfFailedAbsent(scope, file, enforce_period_check, allow_period_update, recs, bats, blbs) ==
    LET sess0 == begin_upload(scope, file, Workbooks[file], enforce_period_check,
                              allow_period_update, next_id({b.id : b \in bats}),
                              fresh_path(blbs))
        clean == [k \in DOMAIN sess0.frames |->
                     Frame(sess0.frames[k].columns, parsed_rows(sess0.frames[k]))]
    IN finish_upload(process_frames([sess0 EXCEPT !.frames = clean], 1, recs, bats))

\* C11: an upload ends with the status, the counters and the ledger it would end with
\* if the rows that fail to parse were absent from the workbook.
C11_RowFailureTolerated ==
    [][UploadDone =>
          \E clean \in {AsIfFailedAbsent(last'.scope, last'.file, last'.enforce_period_check,
                                         last'.allow_period_update, records, batches, blobs)} :
              /\ last'.status = clean.status
              /\ last'.response = reply(clean)
              /\ records' = stored_records(clean, records)]_vars

\* the data rows of the eligible sheets of a file, as (sheet, row) positions, and
\* those of them that parse
DataRows(file) ==
    LET frames == prepared_frames(Workbooks[file])
    IN UNION {{<<k, i>> : i \in DOMAIN frames[k].rows} : k \in DOMAIN frames}

ParsedRows(file) ==
    LET frames == prepared_frames(Workbooks[file])
    IN {p \in DataRows(file) : parse_row(frames[p[1]].rows[p[2]], frames[p[1]].columns).ok}

\* C12: in a committed upload rows_inserted and duplicates_skipped together count
\* exactly the rows that parse, so no more than the data rows of the eligible sheets,
\* and rows_inserted is the number of records the call added to the ledger.
C12_CounterAccounting ==
    [][(UploadDone /\ last'.status = 200) =>
          /\ last'.response.rows_inserted + last'.response.duplicates_skipped
                = Cardinality(ParsedRows(last'.file))
          /\ last'.response.rows_inserted + last'.response.duplicates_skipped
                <= Cardinality(DataRows(last'.file))
          /\ last'.response.rows_inserted
                = Cardinality({r \in records' :
                                  r.upload_batch_id = last'.response.upload_batch_id})
          /\ Cardinality(records' \ records) = last'.response.rows_inserted]_vars

\* a committed upload of a file with rows that fail to parse skipped a duplicate
C12_Witness ==
    /\ Committed
    /\ last.response.duplicates_skipped > 0
    /\ Cardinality(ParsedRows(last.file)) < Cardinality(DataRows(last.file))

TextFields ==
    {"account", "category", "subcategory", "project", "project_code", "description",
     "document_number"}

\* two records that differ in the letter case of a text field and in nothing else
\* that the fingerprint is built from
CaseTwins(r1, r2) ==
    /\ r1.owner_id = r2.owner_id
    /\ r1.date = r2.date /\ r1.flow_type = r2.flow_type
    /\ round2(r1.amount) = round2(r2.amount)
    /\ \A f \in TextFields : lower(r1[f]) = lower(r2[f])
    /\ \E f \in TextFields : r1[f] # r2[f]

\* C13: records that differ only in letter case have the same fingerprint, and a
\* committed upload leaves none of the records it inserted next to such a twin in
\* its scope.
C13_CaseTwinSkipped ==
    /\ \A r1, r2 \in records :
          CaseTwins(r1, r2) => fingerprint_of(r1.owner_id, r1) = fingerprint_of(r2.owner_id, r2)
    /\ Committed =>
          \A r1, r2 \in records :
              (/\ r1.upload_batch_id = last.response.upload_batch_id
               /\ same_scope(r1, r2))
                  => ~CaseTwins(r1, r2)

\* C14: a step of an upload call changes the committed tables only when it is the
\* commit that ends the call; the commit removes the rows the call deleted, adds the
\* rows it accepted and adds its finalized batch row, all in that one step; a call
\* that ends refused changes nothing.
C14_AtomicVisibility ==
    [][\A w \in Workers :
          (tx'[w] # tx[w] /\ tx'[w].op = "upload") =>
              IF Ends(w) /\ tx'[w].status = 200
              THEN /\ {r \in records : r.id \notin tx'[w].deleted} \subseteq records'
                   /\ \A r \in records : r.id \in tx'[w].deleted => r \notin records'
                   /\ \A r \in records' \ records : r.upload_batch_id = tx'[w].batch_id
                   /\ Cardinality(records' \ records) = tx'[w].created
                   /\ batches \subseteq batches'
                   /\ \E b \in batches' \ batches :
                         /\ batches' = batches \cup {b}
                         /\ b.id = tx'[w].batch_id
                         /\ b.records_inserted = tx'[w].created
                         /\ b.period_label = tx'[w].period_label
              ELSE UNCHANGED <<records, batches>>]_vars

\* a call that has deleted rows and accepted rows is about to end while the tables
\* still hold the rows it deleted and no row of its batch
C14_Witness ==
    \E w \in Workers :
        /\ tx[w].pc = "finish" /\ tx[w].created > 0
        /\ \E r \in records : r.id \in tx[w].deleted
        /\ \A r \in records : r.upload_batch_id # tx[w].batch_id
        /\ \A b \in batches : b.id # tx[w].batch_id

\* the step is a clear call, described by last'
ClearDone == calls' = calls /\ last'.op = "clear"

\* C15: a persisted record stays in the ledger as it is, unless the step is a clear
\* call on its scope or a committed upload into its scope with allow_period_update
\* whose detected calendar month holds the record's date; an upload without
\* allow_period_update keeps every record.
C15_RecordLifecycle ==
    [][/\ \A r \in records :
             r \notin records' =>
                 \/ ClearDone /\ in_scope(r, last'.scope)
                 \/ /\ UploadDone /\ last'.status = 200 /\ last'.allow_period_update
                    /\ in_scope(r, last'.scope)
                    /\ InWindows(last'.file, r.date)
       /\ (UploadDone /\ ~last'.allow_period_update) => records \subseteq records']_vars

\* an upload without allow_period_update committed rows next to an older record of
\* its scope dated in the calendar month it detected
C15_Witness ==
    /\ Committed /\ ~last.allow_period_update
    /\ last.response.rows_inserted > 0
    /\ \E r \in records :
          /\ in_scope(r, last.scope)
          /\ r.upload_batch_id # last.response.upload_batch_id
          /\ InWindows(last.file, r.date)

\* C16: a committed upload adds exactly one batch row, the one its response names;
\* no other step adds a batch row, and no step removes or changes one.
C16_BatchImmutable ==
    [][/\ batches \subseteq batches'
       /\ IF UploadDone /\ last'.status = 200
          THEN \E b \in batches' \ batches :
                  /\ batches' = batches \cup {b}
                  /\ b.id = last'.response.upload_batch_id
                  /\ b.records_inserted = last'.response.rows_inserted
                  /\ b.duplicates_skipped = last'.response.duplicates_skipped
          ELSE batches' = batches]_vars

\* a batch that inserted records is still stored after all its records were deleted
C16_Witness ==
    \E b \in batches :
        /\ b.records_inserted > 0
        /\ \A r \in records : r.upload_batch_id # b.id

\* C17: an upload during which a store operation fails leaves records, batches and
\* blobs as they were before the call.
C17_StoreFailureLeavesNoTrace ==
    [][(UploadDone /\ last'.status = 500) => UNCHANGED <<records, batches, blobs>>]_vars

\* the sheet has a detectable header row and the minimum columns
HasHeaderAndColumns(sheet) ==
    sheet.table /\ mandatory \subseteq sheet.columns /\ has_amount(sheet.columns)

\* C18: an upload fails with 400 exactly when no sheet of the workbook has a header
\* row and the minimum columns; otherwise the rows it counts are rows of the sheets
\* that have them.
C18_NoHeaderIffNoSheet ==
    [][UploadDone =>
          LET sheets == Workbooks[last'.file]
              good == {i \in DOMAIN sheets : HasHeaderAndColumns(sheets[i])}
          IN /\ last'.status = 400 <=> good = {}
             /\ last'.status = 200 =>
                   last'.response.rows_inserted + last'.response.duplicates_skipped
                      <= Cardinality(UNION {{<<i, j>> : j \in DOMAIN sheets[i].rows} :
                                               i \in good})]_vars

\* C19: a client that holds the cookies of a successful login and posts a valid
\* workbook without an x-csrf-token header gets 200, and its rows are ingested.
C19_UploadWithLoginCookies ==
    [][(/\ last'.op = "post_upload" /\ calls' = calls + 1
        /\ last'.logged_in /\ last'.csrf_header = 0
        /\ last'.file = 10)
          => /\ last'.status = 200
             /\ records' # records]_vars

\* the total of the amounts of a set of records, by cases on its size
RECURSIVE Total(_)
Total(rows) ==
    IF rows = {} THEN 0
    ELSE LET r == CHOOSE x \in rows : TRUE IN r.amount + Total(rows \ {r})

\* the records of the scope that have the flow type of the filter and that the
\* year and month of the filter, when given, select
Selected(scope, filter) ==
    {r \in records :
        /\ in_scope(r, scope) /\ r.flow_type = filter.flow_type
        /\ filter.year # 0 => r.date.y = filter.year
        /\ filter.month_number # 0 => r.date.m = filter.month_number}

\* the groups hold exactly the values of the field among the rows, each with the
\* sum of the amounts of the rows that have it
AggregatesOf(groups, field, rows) ==
    /\ \A g \in groups :
          /\ \E r \in rows : r[field] = g.label
          /\ g.value = Total({r \in rows : r[field] = g.label})
    /\ \A r \in rows : \E g \in groups : g.label = r[field]
    /\ \A g, h \in groups : g.label = h.label => g = h

\* C20: a summary asked with flow_type = f aggregates by_flow, by_category and
\* by_month over the records of the caller's scope whose flow type is f, and every
\* label of by_flow is f.
C20_SummaryByFlow ==
    (last.op = "summary" /\ last.filter.flow_type \in FlowTypes) =>
        \E rows \in {Selected(last.scope, last.filter)} :
            /\ \A g \in last.response.by_flow : g.label = last.filter.flow_type
            /\ AggregatesOf(last.response.by_flow, "flow_type", rows)
            /\ AggregatesOf(last.response.by_category, "category", rows)
            /\ AggregatesOf(last.response.by_month, "month", rows)

\* a summary by flow type of a scope that holds records of both flow types, while
\* another scope holds records of that flow type
C20_Witness ==
    /\ last.op = "summary" /\ last.filter.flow_type = "ingreso"
    /\ last.response.by_flow # {}
    /\ \E r \in records : in_scope(r, last.scope) /\ r.flow_type = "egreso"
    /\ \E r \in records : ~in_scope(r, last.scope) /\ r.flow_type = "ingreso"
(***************************************************************************)
(* The parsers on their own: header detection over raw sheets.  A raw      *)
(* sheet is pad blank rows followed by up to MaxBodyRows rows of RawRows.  *)
(***************************************************************************)
MaxBodyRows == 2

\* "Fecha", "Tipo de Movimiento", "Categoria", "Monto"
HeaderRow == <<Text(<<70, 101, 99, 104, 97>>), Text(<<84, 105, 112, 111, 32, 100, 101, 32, 77, 111, 118, 105, 109, 105, 101, 110, 116, 111>>), Text(<<67, 97, 116, 101, 103, 111, 114, 105, 97>>), Text(<<77, 111, 110, 116, 111>>)>>
\* " FECHA ", "Tipo", "Línea de Negocio", empty
AccentRow == <<Text(<<32, 70, 69, 67, 72, 65, 32>>), Text(<<84, 105, 112, 111>>), Text(<<76, 237, 110, 101, 97, 32, 100, 101, 32, 78, 101, 103, 111, 99, 105, 111>>), NaN>>
\* "Reporte mensual", empty, empty
TitleRow == <<Text(<<82, 101, 112, 111, 114, 116, 101, 32, 109, 101, 110, 115, 117, 97, 108>>), NaN, NaN>>
\* empty, empty, "  "
BlankRow == <<NaN, NaN, Text(<<32, 32>>)>>
\* "Fecha", "Categoría", "Monto"
NoTipoRow == <<Text(<<70, 101, 99, 104, 97>>), Text(<<67, 97, 116, 101, 103, 111, 114, 237, 97>>), Text(<<77, 111, 110, 116, 111>>)>>
\* "Fecha", "Tipo", "Monto"
NoCategoriaRow == <<Text(<<70, 101, 99, 104, 97>>), Text(<<84, 105, 112, 111>>), Text(<<77, 111, 110, 116, 111>>)>>
\* "Fecha de pago", "Tipo", "Categoria"
LongFechaRow == <<Text(<<70, 101, 99, 104, 97, 32, 100, 101, 32, 112, 97, 103, 111>>), Text(<<84, 105, 112, 111>>), Text(<<67, 97, 116, 101, 103, 111, 114, 105, 97>>)>>
\* "Fecha:", "TIPO.", "Categoria_"
PunctRow == <<Text(<<70, 101, 99, 104, 97, 58>>), Text(<<84, 73, 80, 79, 46>>), Text(<<67, 97, 116, 101, 103, 111, 114, 105, 97, 95>>)>>

RawRows == <<HeaderRow, AccentRow, TitleRow, BlankRow, NoTipoRow, NoCategoriaRow, LongFechaRow, PunctRow>>

PadCounts == {0, 1, 3, HeaderScanRows - 2, HeaderScanRows - 1, HeaderScanRows}

RawBodies == UNION {[1 .. n -> DOMAIN RawRows] : n \in 1 .. MaxBodyRows}

raw_sheet(pad, body) == [i \in 1 .. pad |-> BlankRow] \o [i \in DOMAIN body |-> RawRows[body[i]]]

HeaderInputs == {[op |-> "input", fn |-> "detect_header_row", pad |-> pad, body |-> body] : pad \in PadCounts, body \in RawBodies}

\* amount cells: every text of up to MaxAmountLen characters of AmountAlphabet, the
\* longer texts of AmountExamples, an empty cell and a numeric cell
MaxAmountLen == 3

\* "1", "5", ",", ".", "-", " "
AmountAlphabet == {49, 53, Comma, Dot, Minus, 32}

AmountExamples == {<<49, 46, 50, 51, 52, 44, 53, 54>>,  \* '1.234,56'
                   <<49, 44, 50, 51, 52, 46, 53, 54>>,  \* '1,234.56'
                   <<49, 50, 48, 48>>,  \* '1200'
                   <<32, 36, 32, 49, 46, 50, 48, 48, 44, 53, 32>>,  \* ' $ 1.200,5 '
                   <<49, 46, 50, 51, 52, 46, 53, 54, 55, 44, 56, 57>>,  \* '1.234.567,89'
                   <<49, 44, 50, 51, 52, 44, 53, 54, 55, 46, 56, 57>>,  \* '1,234,567.89'
                   <<49, 44, 50, 51, 52, 44, 53, 54, 55>>,  \* '1,234,567'
                   <<67, 76, 80, 32, 45, 51, 46, 53>>,  \* 'CLP -3.5'
                   <<49, 50, 97, 98, 99>>,  \* '12abc'
                   <<97, 98, 99>>  \* 'abc'
                   }

AmountCells ==
    {Text(s) : s \in AmountExamples \cup UNION {[1 .. n -> AmountAlphabet] : n \in 0 .. MaxAmountLen}}
        \cup {NaN, Num(1200000)}

AmountInputs == {[op |-> "input", fn |-> "parse_amount", value |-> v] : v \in AmountCells}

\* date cells: texts year-month-day and day-month-year (or month-day-year) with
\* months and days of one and two digits, valid and not, empty and wordy texts,
\* an empty cell and a native date
YearTexts == {<<50, 48, 50, 52>>, <<50, 48, 50, 53>>}
MonthTexts == {<<49>>, <<48, 49>>, <<50>>, <<48, 50>>, <<49, 50>>, <<49, 51>>}
DayTexts == {<<53>>, <<48, 53>>, <<50, 57>>, <<51, 48>>, <<51, 49>>}
Separators == {Minus, Slash}

YmdTexts == {y \o <<s1>> \o m \o <<s2>> \o d : y \in YearTexts, m \in MonthTexts, d \in DayTexts, s1 \in Separators, s2 \in Separators}

DmyTexts == {a \o <<s>> \o b \o <<s>> \o y : a \in DayTexts \cup MonthTexts, b \in MonthTexts, y \in YearTexts, s \in Separators}

DateCells ==
    {Text(s) : s \in YmdTexts \cup DmyTexts \cup {<<>>, <<32, 32>>, <<97, 98, 99>>, <<32, 50, 48, 50, 53, 45, 48, 49, 45, 48, 53, 32>>}}
        \cup {NaN, DateCell(Dec31)}

DateInputs == {[op |-> "input", fn |-> "parse_excel_date", value |-> v] : v \in DateCells}

ParseInputs == HeaderInputs \cup AmountInputs \cup DateInputs

\* the state before a parser is applied to the input drawn for it
InitParse ==
    /\ records = {}
    /\ batches = {}
    /\ blobs = {}
    /\ calls = 0
    /\ last \in ParseInputs
    /\ tx = [w \in Workers |-> Idle]
    /\ WebInit

DetectHeader ==
    /\ last.op = "input" /\ last.fn = "detect_header_row"
    /\ last' = [op |-> "detect_header_row", pad |-> last.pad, body |-> last.body,
                result |-> detect_header_row(raw_sheet(last.pad, last.body))]
    /\ UNCHANGED <<records, batches, blobs, calls, tx, web>>

ParseAmount ==
    /\ last.op = "input" /\ last.fn = "parse_amount"
    /\ last' = [op |-> "parse_amount", value |-> last.value, result |-> parse_amount(last.value)]
    /\ UNCHANGED <<records, batches, blobs, calls, tx, web>>

ParseDate ==
    /\ last.op = "input" /\ last.fn = "parse_excel_date"
    /\ last' = [op |-> "parse_excel_date", value |-> last.value, result |-> parse_excel_date(last.value)]
    /\ UNCHANGED <<records, batches, blobs, calls, tx, web>>

NextParse ==
    \/ DetectHeader
    \/ ParseAmount
    \/ ParseDate

SpecParse == InitParse /\ [][NextParse]_vars

\* the row carries the three column tokens of a header
Qualifies(row) ==
    /\ TokFecha \in row_values(row)
    /\ {TokTipo, TokTipoDeMovimiento} \cap row_values(row) # {}
    /\ {TokCategoria, TokLineaDeNegocio, TokCategoria_} \cap row_values(row) # {}

QualifyingRows(raw) == {i \in 0 .. Len(raw) - 1 : i < HeaderScanRows /\ Qualifies(raw[i + 1])}

\* C21: header detection returns the smallest index below 40 of a row whose tokens
\* hold "fecha", a tipo token and a categoria token, and finds nothing when no row
\* among the first 40 qualifies, whatever comes at index 40 or later.
C21_HeaderDetection ==
    last.op = "detect_header_row" =>
        \E q \in {QualifyingRows(raw_sheet(last.pad, last.body))} :
            IF q = {} THEN last.result = None
            ELSE \E i \in q : last.result = row_found(i) /\ \A j \in q : i <= j

\* three blank rows, then the header row, then another qualifying row: index 3
C21_Witness ==
    /\ last.op = "detect_header_row"
    /\ last.pad = 3 /\ Len(last.body) = 2
    /\ RawRows[last.body[1]] = HeaderRow /\ Qualifies(RawRows[last.body[2]])
    /\ last.result = row_found(3)

\* the text with the separator sep as its decimal point and the separator other dropped
WithDecimal(text, sep, other) == replace(replace(text, other, <<>>), sep, <<Dot>>)

\* the reading of an amount text: its characters of [0-9,.-]; with both separators
\* the later one is the decimal point; a lone "," is the decimal point
AmountReading(s) ==
    LET text == keep(s, AmountChars)
        comma == \E i \in DOMAIN text : text[i] = Comma
        dot == \E i \in DOMAIN text : text[i] = Dot
        later(a, b) == \E i \in DOMAIN text : text[i] = a /\ \A j \in DOMAIN text : text[j] = b => j < i
    IN IF comma /\ dot
       THEN IF later(Comma, Dot) THEN WithDecimal(text, Comma, Dot) ELSE WithDecimal(text, Dot, Comma)
       ELSE IF comma THEN WithDecimal(text, Comma, Dot)
       ELSE text

\* C22: the amount of a text is the decimal number written by its characters of
\* [0-9,.-] read with the later of "," and "." (or a lone ",") as the decimal point,
\* and a text that leaves no number, or an empty cell, fails: "1.234,56" and
\* "1,234.56" give 1234.56 and "1200" gives 1200.
C22_AmountOfText ==
    /\ last.op = "parse_amount" /\ last.value.kind = "text" =>
          /\ last.result = float_of(AmountReading(last.value.s))
          /\ last.value.s \in {<<49, 46, 50, 51, 52, 44, 53, 54>>, <<49, 44, 50, 51, 52, 46, 53, 54>>} => last.result = Num(1234560)
          /\ last.value.s = <<49, 50, 48, 48>> => last.result = Num(1200000)
          /\ strip(last.value.s) = <<>> => last.result = Fail
    /\ last.op = "parse_amount" /\ last.value.kind = "nan" => last.result = Fail

C22_Witness ==
    /\ last.op = "parse_amount" /\ last.value.kind = "text"
    /\ last.value.s = <<49, 46, 50, 51, 52, 44, 53, 54>>
    /\ last.result = Num(1234560)

\* the calendar dates of the years of the date texts
CalendarDates ==
    {dt \in {MkDate(int_of(y), m, d) : y \in YearTexts, m \in 1 .. 12, d \in 1 .. 31} :
        dt.d <= days_in_month(dt.y, dt.m)}

\* a number below 100 written with two digits or, below 10, also with one
OneOrTwoDigits(n) == {Digits2(n)} \cup (IF n < 10 THEN {<<Digit(n)>>} ELSE {})

\* the texts YYYY-M-D and YYYY/M/D of a date
YmdTextsOf(dt) ==
    {Digits4(dt.y) \o <<s>> \o m \o <<s>> \o d : s \in Separators, m \in OneOrTwoDigits(dt.m), d \in OneOrTwoDigits(dt.d)}

\* C23: a text YYYY-M-D or YYYY/M/D with a month and a day of one or two digits
\* that denotes a valid calendar date parses to that year, month and day, and an
\* empty text or an empty cell fails.
C23_DateOfText ==
    /\ last.op = "parse_excel_date" /\ last.value.kind = "text" =>
          /\ \A dt \in CalendarDates :
                strip(last.value.s) \in YmdTextsOf(dt) => last.result = DateCell(dt)
          /\ strip(last.value.s) = <<>> => last.result = Fail
    /\ last.op = "parse_excel_date" /\ last.value.kind = "nan" => last.result = Fail

(***************************************************************************)
(* Uploads over a ledger that may hold an earlier upload (file 5 in the     *)
(* first scope), so that a file can be uploaded twice on top of it.         *)
(***************************************************************************)
ReplaceFiles == {1, 2, 6, 10}

InitSeeded ==
    /\ \E seed \in {seed_session(SeedScope1, {}, {}, {})}, seeded \in BOOLEAN :
          /\ records = IF seeded THEN stored_records(seed, {}) ELSE {}
          /\ batches = IF seeded THEN stored_batches(seed, {}) ELSE {}
          /\ blobs = IF seeded THEN stored_blobs(seed, {}) ELSE {}
    /\ calls = 0
    /\ last = [op |-> "none"]
    /\ tx = [w \in Workers |-> Idle]
    /\ WebInit

NextReplace ==
    \E scope \in Scopes, file \in ReplaceFiles, e \in BOOLEAN, a \in BOOLEAN :
        Upload(scope, file, e, a)

SpecReplace == InitSeeded /\ [][NextReplace]_vars

\* the rows of sheet k of a file that parse and have the fingerprint of record r
TwinRows(file, k, r) ==
    LET frame == prepared_frames(Workbooks[file])[k]
    IN {i \in DOMAIN frame.rows :
            /\ parse_row(frame.rows[i], frame.columns).ok
            /\ fingerprint_of(r.owner_id, parse_row(frame.rows[i], frame.columns))
                  = stored_fingerprint(r.owner_id, r)}

\* the records of the scope that the window deletion of sheet k of a file matches
SheetWindow(file, k, scope, recs) ==
    LET det == detect_period(prepared_frames(Workbooks[file])[k], 1)
    IN {r \in OfScope(recs, scope) :
            /\ det.found
            /\ ~DateLess(r.date, det.detected_month_start)
            /\ DateLess(r.date, det.detected_next_month_start)}

\* a row of the file identical to a record that its sheet's window deletion removed
\* is inserted by the call, and rows_inserted counts the records the call inserted
DeletedTwinInserted ==
    (UploadDone /\ last'.allow_period_update /\ last'.status = 200) =>
        /\ \A k \in DOMAIN prepared_frames(Workbooks[last'.file]) :
              \A r \in SheetWindow(last'.file, k, last'.scope, records) :
                  TwinRows(last'.file, k, r) # {} =>
                      \E n \in records' :
                          /\ n.upload_batch_id = last'.response.upload_batch_id
                          /\ in_scope(n, last'.scope)
                          /\ stored_fingerprint(n.owner_id, n) = stored_fingerprint(r.owner_id, r)
        /\ last'.response.rows_inserted =
              Cardinality({n \in records' : n.upload_batch_id = last'.response.upload_batch_id})

\* the fingerprints of the records of a scope dated in the month of a period label
MonthFingerprints(recs, scope, period) ==
    {stored_fingerprint(r.owner_id, r) : r \in {x \in OfScope(recs, scope) : strftime_Ym(x.date) = period}}

\* the fingerprints of the rows of a file that parse
FileFingerprints(file, owner) ==
    LET frames == prepared_frames(Workbooks[file])
    IN {fingerprint_of(owner, parse_row(frames[p[1]].rows[p[2]], frames[p[1]].columns)) :
            p \in ParsedRows(file)}

\* every row of the file that parses is dated in the one month the file is detected as
SingleMonth(file, period) ==
    LET frames == prepared_frames(Workbooks[file])
    IN /\ DetectedPeriods(file) = {period}
       /\ \A p \in ParsedRows(file) :
             parse_row(frames[p[1]].rows[p[2]], frames[p[1]].columns).month = period

\* a committed upload is followed by a committed upload of the same single-month file
\* into the same scope with allow_period_update
ReuploadReplacing(period) ==
    /\ Committed
    /\ UploadDone
    /\ last'.file = last.file /\ last'.scope = last.scope
    /\ last'.allow_period_update /\ last'.status = 200
    /\ SingleMonth(last'.file, period)

\* C24 as claimed: the window deletion of a sheet precedes the load of its existing
\* fingerprints, so a row identical to a record just deleted is inserted and counted;
\* and re-uploading an unchanged single-month file with allow_period_update leaves
\* the set of fingerprints of that month as it was.
C24_ReplaceThenLoadAsClaimed ==
    [][/\ DeletedTwinInserted
       /\ \A period \in DetectedPeriods(last'.file) :
             ReuploadReplacing(period) =>
                 MonthFingerprints(records', last'.scope, period)
                     = MonthFingerprints(records, last'.scope, period)]_vars

\* C24 amended: the same, the re-upload leaving the month's fingerprints as they were
\* when the month held no record other than rows of the file; records of the month
\* that the file does not hold are deleted and not restored.
C24_ReplaceThenLoad ==
    [][/\ DeletedTwinInserted
       /\ \A period \in DetectedPeriods(last'.file) :
             ReuploadReplacing(period) =>
                 /\ MonthFingerprints(records', last'.scope, period)
                       = FileFingerprints(last'.file, last'.scope.owner)
                 /\ MonthFingerprints(records, last'.scope, period)
                       \subseteq FileFingerprints(last'.file, last'.scope.owner)
                    => MonthFingerprints(records', last'.scope, period)
                          = MonthFingerprints(records, last'.scope, period)]_vars

\* a re-upload with allow_period_update that deleted the records of the first upload
\* and inserted their rows again
C24_Witness ==
    /\ Committed /\ last.allow_period_update
    /\ last.response.rows_replaced > 0
    /\ last.response.rows_inserted > 0
    /\ \E b \in batches :
          /\ b.id # last.response.upload_batch_id
          /\ in_scope(b, last.scope)
          /\ BatchFile(b) = last.file
          /\ b.records_inserted > 0
    /\ \E period \in DetectedPeriods(last.file) :
          /\ SingleMonth(last.file, period)
          /\ MonthFingerprints(records, last.scope, period)
                = FileFingerprints(last.file, last.scope.owner)

\* the sheet a call in flight is at has a detected period
SheetDetected(sess) == detect_period(sess.frames[sess.k], 1).found

\* the step of worker w runs the period-batch lookup of a sheet
PeriodCheckStep(w) ==
    /\ tx[w].pc = "check" /\ tx'[w].pc # "check"
    /\ tx[w].enforce_period_check /\ ~tx[w].allow_period_update /\ SheetDetected(tx[w])

\* the step of worker w runs the window deletion of a sheet
WindowDeleteStep(w) ==
    /\ tx[w].pc = "replace" /\ tx'[w].pc # "replace"
    /\ tx[w].allow_period_update /\ SheetDetected(tx[w])

\* C25: an upload call ends committed, refused for no valid header or refused for a
\* period conflict; a refusal is decided before any row of the workbook has been
\* accepted for insertion, and no period check or window deletion runs after the
\* call has begun accepting rows.
C25_PhasesInOrder ==
    [][\A w \in Workers :
          /\ (tx'[w].pc = "done" /\ tx'[w].op = "upload") =>
                /\ tx'[w].status \in {200, 400, 409}
                /\ tx'[w].status # 200 => tx'[w].created = 0 /\ tx'[w].pending = <<>>
          /\ (PeriodCheckStep(w) \/ WindowDeleteStep(w)) =>
                tx[w].created = 0 /\ tx[w].pending = <<>>]_vars

\* the label ends with the update annotation
Annotated(label) ==
    /\ Len(label) >= Len(Actualizado)
    /\ SubSeq(label, Len(label) - Len(Actualizado) + 1, Len(label)) = Actualizado

\* the batch a committed upload wrote
BatchOf(body, bats) == CHOOSE b \in bats : b.id = body.upload_batch_id

\* C26: the period label of a committed batch carries the suffix " (actualizado)"
\* exactly when a period replace (a window deletion, whatever it matched) ran in the
\* call; a call in which none ran stores the plain label whatever its flags.
C26_SuffixIffReplace ==
    [][(UploadDone /\ last'.status = 200) =>
          (Annotated(BatchOf(last'.response, batches').period_label)
              <=> (last'.allow_period_update /\ DetectedPeriods(last'.file) # {}))]_vars

\* two calls uploaded the same file into the same scope without allow_period_update,
\* both committed and both inserted rows: neither saw the rows of the other when it
\* loaded the existing fingerprints
BothInserted(w, v) ==
    /\ w # v
    /\ tx[w].pc = "done" /\ tx[w].op = "upload" /\ tx[w].status = 200
    /\ tx[v].pc = "done" /\ tx[v].op = "upload" /\ tx[v].status = 200
    /\ tx[w].scope = tx[v].scope /\ tx[w].file = tx[v].file
    /\ ~tx[w].allow_period_update /\ ~tx[v].allow_period_update
    /\ tx[w].created > 0 /\ tx[v].created > 0

\* C27: same-scope uploads are not mutually excluded: when two calls upload the same
\* file into one scope and each loads the existing fingerprints before the other
\* commits, both commit their rows and the scope is left with two persisted records
\* of the same fingerprint.
C27_ConcurrentDuplicates ==
    \A w, v \in Workers :
        BothInserted(w, v) =>
            \E r1, r2 \in records :
                /\ r1 # r2
                /\ in_scope(r1, tx[w].scope) /\ in_scope(r2, tx[w].scope)
                /\ r1.upload_batch_id = tx[w].batch_id /\ r2.upload_batch_id = tx[v].batch_id
                /\ stored_fingerprint(r1.owner_id, r1) = stored_fingerprint(r2.owner_id, r2)

\* both calls passed their period check, and both committed a row of the same
\* fingerprint
C27_Witness ==
    \E w, v \in Workers :
        /\ BothInserted(w, v)
        /\ tx[w].enforce_period_check /\ tx[v].enforce_period_check
        /\ \E r1, r2 \in records :
              /\ r1.upload_batch_id = tx[w].batch_id /\ r2.upload_batch_id = tx[v].batch_id
              /\ in_scope(r1, tx[w].scope) /\ in_scope(r2, tx[w].scope)
              /\ stored_fingerprint(r1.owner_id, r1) = stored_fingerprint(r2.owner_id, r2)

\* a committed batch of the scope is labelled with a period detected in the file
LabelledBatch(scope, file, bats) ==
    \E b \in bats : in_scope(b, scope) /\ b.period_label \in DetectedPeriods(file)

\* C28: the period conflict is keyed on the committed batches, not on the records: an
\* upload with enforce_period_check and without allow_period_update is refused with
\* 409 exactly when a batch of the scope is labelled with a period detected in the
\* file, also after clear_records has deleted every record of that period.
C28_ConflictKeyedOnBatches ==
    [][(UploadDone /\ last'.enforce_period_check /\ ~last'.allow_period_update) =>
          (last'.status = 409 <=> LabelledBatch(last'.scope, last'.file, batches))]_vars

\* an upload refused with the conflict in a scope that clear_records left without
\* any record, where the batch labelled with the file's period remains
C28_Witness ==
    /\ last.op = "upload" /\ last.status = 409
    /\ last.enforce_period_check /\ ~last.allow_period_update
    /\ OfScope(records, last.scope) = {}
    /\ \E b \in batches :
          /\ in_scope(b, last.scope)
          /\ b.records_inserted > 0
          /\ b.period_label \in DetectedPeriods(last.file)

\* C29: an upload never conflicts with its own batch: a workbook with eligible
\* sheets, uploaded with enforce_period_check and without allow_period_update into a
\* scope no batch of which is labelled with a period detected in it, commits, and
\* every row of every eligible sheet that parses is inserted or skipped as a
\* duplicate, also when several sheets belong to the same period.
C29_NoSelfConflict ==
    [][(/\ UploadDone /\ last'.enforce_period_check /\ ~last'.allow_period_update
        /\ prepared_frames(Workbooks[last'.file]) # <<>>
        /\ ~LabelledBatch(last'.scope, last'.file, batches)) =>
          /\ last'.status = 200
          /\ last'.response.rows_inserted + last'.response.duplicates_skipped
                = Cardinality(ParsedRows(last'.file))
          /\ FileFingerprints(last'.file, last'.scope.owner)
                \subseteq {stored_fingerprint(r.owner_id, r) : r \in OfScope(records', last'.scope)}]_vars

\* a committed upload with enforce_period_check of a workbook with two sheets of the
\* same period, both ingested, the batch labelled with that period
C29_Witness ==
    /\ Committed /\ last.enforce_period_check /\ ~last.allow_period_update
    /\ Len(prepared_frames(Workbooks[last.file])) > 1
    /\ \E period \in DetectedPeriods(last.file) :
          /\ \A k \in DOMAIN prepared_frames(Workbooks[last.file]) :
                detect_period(prepared_frames(Workbooks[last.file])[k], 1).detected_period = period
          /\ BatchOf(last.response, batches).period_label = period
    /\ last.response.rows_inserted + last.response.duplicates_skipped
          = Cardinality(ParsedRows(last.file))
    /\ last.response.rows_inserted > 0

\* the step answers a login request from ip_address
LoginAnswered(ip_address) ==
    last'.op = "login" /\ last'.ip_address = ip_address /\ last' # last

\* C30: a login request from an address that has LOGIN_RATE_LIMIT_MAX_ATTEMPTS
\* failures recorded inside the window is answered 429, with the right credentials
\* too, and records nothing; below the limit (as when enough failures have aged out)
\* a request is answered 200 with the right credentials, which clears the failures
\* of the address, and 401 otherwise, which records one more; the failures of other
\* addresses are left as they are.
C30_LoginLockout ==
    [][\A ip_address \in IPs :
          LoginAnswered(ip_address) =>
              /\ \A other \in IPs \ {ip_address} : login_attempts'[other] = login_attempts[other]
              /\ IF login_attempts[ip_address] >= LOGIN_RATE_LIMIT_MAX_ATTEMPTS
                 THEN last'.status = 429 /\ UNCHANGED <<login_attempts, cookies, users>>
                 ELSE IF last'.correct
                 THEN last'.status = 200 /\ login_attempts'[ip_address] = 0
                 ELSE /\ last'.status = 401
                      /\ login_attempts'[ip_address] = login_attempts[ip_address] + 1
                      /\ UNCHANGED cookies]_vars

\* a login with the right credentials was refused with 429 from an address at the
\* limit, while the other address is below it
C30_Witness ==
    /\ last.op = "login" /\ last.status = 429 /\ last.correct
    /\ login_attempts[last.ip_address] = LOGIN_RATE_LIMIT_MAX_ATTEMPTS
    /\ \E other \in IPs : login_attempts[other] \in 1 .. LOGIN_RATE_LIMIT_MAX_ATTEMPTS - 1

====
